---- MODULE Spec2Model ----
(***************************************************************************)
(* Model of the prediction and staking engine of BetMaster-Agent:          *)
(*   src/analyzer/poisson_model.py      (PoissonModel, the Goal Model)     *)
(*   src/predictor/confidence_engine.py (ConfidenceEngine)                 *)
(*   src/bettor/auto_bettor.py          (AutoBettor)                       *)
(*   src/main.py                        (BetMasterAgent, the analysis loop)*)
(*   src/scraper/scraper_manager.py     (merging the sites' snapshots)     *)
(*   src/analyzer/stats_fetcher.py, src/analyzer/ollama_analyzer.py        *)
(*                                      (the two caches the loop touches)  *)
(* Specifications: Spec (the engine's entry points), SpecScorer and        *)
(* SpecGoal (scoring functions and Goal Model methods called directly),    *)
(* SpecBettor (the auto-bettor), SpecCycle (the agent's analysis loop with *)
(* the background stats fetch, a forced refresh and the shutdown),         *)
(* SpecConsider (consider_bet calls as interleaved coroutines), SpecMerge  *)
(* (the scraper manager's _deduplicate), SpecRepeat (a sequence of calls   *)
(* on one PoissonModel with rating updates in between).                    *)
(*                                                                         *)
(* Number representation.  The code computes in binary floating point     *)
(* (IEEE 754 doubles); the model carries the exact value of each quantity  *)
(* and, next to it, the double the code computes:                          *)
(*   - probabilities returned by the Goal Model are rounded by the code to *)
(*     4 decimals, so they are integers in units of 1/10000 ("e4");        *)
(*   - decimal odds are integers in units of 1/100 ("hundredths"),         *)
(*     None is the value None, and MaxOddsH is the largest odds drawn;     *)
(*   - team ratings are rounded by the code to 3 decimals: units of 1/1000;*)
(*   - expected goals and Poisson masses are fixed point numbers with 16   *)
(*     decimal places, which is the precision of a double; an expected     *)
(*     goals value also carries the floating point expression the code     *)
(*     computes it by;                                                     *)
(*   - edge, Kelly fraction, confidence and stake are records              *)
(*     [n |-> numerator, d |-> denominator > 0, f |-> floating point       *)
(*     expression]: n/d is the value in real arithmetic, f evaluates to    *)
(*     the code's double (FEval).                                          *)
(* The exact value and the double differ by a few units of the last place  *)
(* of the double.  That difference shows only where the exact value lies   *)
(* on a threshold the code compares with (edge < -0.15, confidence >= 60,  *)
(* home_xg + away_xg > 1.2, ...) or on a tie of round(): there the model   *)
(* evaluates the double, operation by operation with round-to-nearest-even *)
(* as the machine does, and decides as the code does                       *)
(* (0.05 - 1/5.0 = -0.15000000000000002 < -0.15, round(0.575, 2) = 0.57).  *)
(* Sums of Poisson masses come from scipy's pmf, whose last bits the model *)
(* does not reproduce: within 10^-8 of a tie of round(x, 4) the model      *)
(* rounds the double nearest to its own fixed point sum.                   *)
(* _confidence_label is modelled by its word ("Very High", ...), without   *)
(* the symbol the code puts in front of it.                                *)
(*                                                                         *)
(* Lines 172-195 of confidence_engine.py (the "AI ADJUSTMENT" block) are a *)
(* disabled block: its guarding `if` is commented out ("Skip AI for now")  *)
(* and the body is left indented under the comment.  The model treats the  *)
(* block as the comment says, skipped: ai_reasons stays empty and the      *)
(* confidence is not boosted.                                              *)
(***************************************************************************)
EXTENDS Integers, Sequences, FiniteSets, TLC

----------------------------------------------------------------------------
(* Arithmetic helpers                                                      *)

Abs(x) == IF x < 0 THEN -x ELSE x

Min(a, b) == IF a <= b THEN a ELSE b

Max(a, b) == IF a >= b THEN a ELSE b

(* the integer nearest to n/d, for d > 0 and n/d not half way between two  *)
(* integers                                                                *)
NearestInt(n, d) == IF 2 * (n % d) > d THEN n \div d + 1 ELSE n \div d

----------------------------------------------------------------------------
(* Natural numbers below 2^112, for the arithmetic that does not fit 32    *)
(* bits: eight digits of base 2^14, lowest digit first.                    *)

(* TRUE, and v has been evaluated once it is: a computation that tests it  *)
(* on a value before it goes on works with the finished value, where it    *)
(* would otherwise carry the expression and all those before it            *)
Computed(v) == v = v

WBase == 128 * 128

WZero == <<0, 0, 0, 0, 0, 0, 0, 0>>

WOne == <<1, 0, 0, 0, 0, 0, 0, 0>>

WDigit(a, i) == IF i >= 1 /\ i <= 8 THEN a[i] ELSE 0

(* the integer n, 0 <= n < 2^31                                            *)
WInt(n) == <<n % WBase, (n \div WBase) % WBase, n \div (WBase * WBase), 0, 0, 0, 0, 0>>

(* the value of a, for a < 2^31                                            *)
WToInt(a) == a[1] + WBase * a[2] + WBase * WBase * a[3]

(* Calc(op, a, ..., g) is the operator named op applied to as many of the  *)
(* operands a..g as it takes: an operator X defined as `Calc("X", ...)`    *)
(* has its body in XImpl.  The arithmetic operators and the scoring        *)
(* functions built on them refer to each other through Calc, as one        *)
(* recursive family of definitions.                                        *)
RECURSIVE Calc(_, _, _, _, _, _, _, _)

(* the number with the digits c[1..8], which may lie outside 0..WBase - 1  *)
WNorm(c) == Calc("WNorm", c, 0, 0, 0, 0, 0, 0)

WNormImpl(c) ==
    LET t1 == c[1]
        t2 == c[2] + (t1 \div WBase)
        t3 == c[3] + (t2 \div WBase)
        t4 == c[4] + (t3 \div WBase)
        t5 == c[5] + (t4 \div WBase)
        t6 == c[6] + (t5 \div WBase)
        t7 == c[7] + (t6 \div WBase)
        t8 == c[8] + (t7 \div WBase)
    IN  <<t1 % WBase, t2 % WBase, t3 % WBase, t4 % WBase,
          t5 % WBase, t6 % WBase, t7 % WBase, t8 % WBase>>

WAdd(a, b) ==
    WNorm(<<a[1] + b[1], a[2] + b[2], a[3] + b[3], a[4] + b[4],
            a[5] + b[5], a[6] + b[6], a[7] + b[7], a[8] + b[8]>>)

(* a - b for a >= b                                                        *)
WSub(a, b) ==
    WNorm(<<a[1] - b[1], a[2] - b[2], a[3] - b[3], a[4] - b[4],
            a[5] - b[5], a[6] - b[6], a[7] - b[7], a[8] - b[8]>>)

(* the sign of a - b                                                       *)
WCmp(a, b) ==
    IF a = b THEN 0
    ELSE LET i == CHOOSE k \in 1..8 : a[k] /= b[k] /\ \A j \in (k + 1)..8 : a[j] = b[j]
         IN  IF a[i] > b[i] THEN 1 ELSE -1

(* a * k for an integer 0 <= k < 2^16                                      *)
WMulSmall(a, k) ==
    WNorm(<<a[1] * k, a[2] * k, a[3] * k, a[4] * k,
            a[5] * k, a[6] * k, a[7] * k, a[8] * k>>)

(* quotient and remainder of a by an integer 1 <= k < 2^16                 *)
WDivSmall(a, k) == Calc("WDivSmall", a, k, 0, 0, 0, 0, 0)

WDivSmallImpl(a, k) ==
    LET t8 == a[8]
        t7 == (t8 % k) * WBase + a[7]
        t6 == (t7 % k) * WBase + a[6]
        t5 == (t6 % k) * WBase + a[5]
        t4 == (t5 % k) * WBase + a[4]
        t3 == (t4 % k) * WBase + a[3]
        t2 == (t3 % k) * WBase + a[2]
        t1 == (t2 % k) * WBase + a[1]
    IN  CASE Computed(<<t8, t7, t6, t5, t4, t3, t2, t1>>) ->
            [q |-> <<t1 \div k, t2 \div k, t3 \div k, t4 \div k,
                     t5 \div k, t6 \div k, t7 \div k, t8 \div k>>,
             r |-> t1 % k]

(* a * b for a, b < 2^56                                                   *)
WMul(a, b) ==
    WNorm(<<a[1] * b[1],
            a[1] * b[2] + a[2] * b[1],
            a[1] * b[3] + a[2] * b[2] + a[3] * b[1],
            a[1] * b[4] + a[2] * b[3] + a[3] * b[2] + a[4] * b[1],
            a[2] * b[4] + a[3] * b[3] + a[4] * b[2],
            a[3] * b[4] + a[4] * b[3],
            a[4] * b[4],
            0>>)

(* digit i of a * 2^(14 * q) * p, p = 2^r with r < 14                      *)
WShlDigit(a, q, p, i) ==
    ((WDigit(a, i - q) * p) % WBase) + (WDigit(a, i - q - 1) \div (WBase \div p))

(* a * 2^s, s >= 0, for a result below 2^112                               *)
WShl(a, s) == Calc("WShl", a, s, 0, 0, 0, 0, 0)

WShlImpl(a, s) ==
    LET q == s \div 14
        p == 2 ^ (s % 14)
    IN  <<WShlDigit(a, q, p, 1), WShlDigit(a, q, p, 2), WShlDigit(a, q, p, 3),
          WShlDigit(a, q, p, 4), WShlDigit(a, q, p, 5), WShlDigit(a, q, p, 6),
          WShlDigit(a, q, p, 7), WShlDigit(a, q, p, 8)>>

(* digit i of floor(a / (2^(14 * q) * p)), p = 2^r with r < 14             *)
WShrDigit(a, q, p, i) ==
    (WDigit(a, i + q) \div p) + (WDigit(a, i + q + 1) % p) * (WBase \div p)

(* floor(a / 2^s), s >= 0, and whether bits were lost                      *)
WShr(a, s) == Calc("WShr", a, s, 0, 0, 0, 0, 0)

WShrImpl(a, s) ==
    LET q == s \div 14
        p == 2 ^ (s % 14)
    IN  [q |-> <<WShrDigit(a, q, p, 1), WShrDigit(a, q, p, 2), WShrDigit(a, q, p, 3),
                 WShrDigit(a, q, p, 4), WShrDigit(a, q, p, 5), WShrDigit(a, q, p, 6),
                 WShrDigit(a, q, p, 7), WShrDigit(a, q, p, 8)>>,
         sticky |-> (\E i \in 1..8 : i <= q /\ a[i] /= 0) \/ WDigit(a, q + 1) % p /= 0]

(* the number of binary digits of a                                        *)
WBitLen(a) == Calc("WBitLen", a, 0, 0, 0, 0, 0, 0)

WBitLenImpl(a) ==
    IF a = WZero THEN 0
    ELSE LET i == CHOOSE k \in 1..8 : a[k] /= 0 /\ \A j \in (k + 1)..8 : a[j] = 0
         IN  14 * (i - 1) + CHOOSE n \in 1..14 : 2 ^ (n - 1) <= a[i] /\ a[i] < 2 ^ n

(* one step of the long division by d, 2^55 <= d < 2^56: the digit `limb`  *)
(* is brought down behind the remainder rem < d.  The digit of the         *)
(* quotient is at most 2 below the estimate from the two leading digits    *)
(* (Knuth, The Art of Computer Programming, section 4.3.1).                *)
WDivStep(rem, limb, d) == Calc("WDivStep", rem, limb, d, 0, 0, 0, 0)

WDivStepImpl(rem, limb, d) ==
    LET cur == <<limb, rem[1], rem[2], rem[3], rem[4], 0, 0, 0>>
        est == (cur[5] * WBase + cur[4]) \div d[4]
        qhat == IF est > WBase - 1 THEN WBase - 1 ELSE est
        p0 == WMulSmall(d, qhat)
        p1 == WSub(p0, d)
        p2 == WSub(p1, d)
    IN  IF WCmp(p0, cur) <= 0 THEN [q |-> qhat, r |-> WSub(cur, p0)]
        ELSE IF WCmp(p1, cur) <= 0 THEN [q |-> qhat - 1, r |-> WSub(cur, p1)]
        ELSE [q |-> qhat - 2, r |-> WSub(cur, p2)]

(* quotient and remainder of n by d, 2^55 <= d < 2^56                      *)
WDivMod(n, d) == Calc("WDivMod", n, d, 0, 0, 0, 0, 0)

WDivModImpl(n, d) ==
    LET s5 == WDivStep(<<n[6], n[7], n[8], 0, 0, 0, 0, 0>>, n[5], d)
        s4 == WDivStep(s5.r, n[4], d)
        s3 == WDivStep(s4.r, n[3], d)
        s2 == WDivStep(s3.r, n[2], d)
        s1 == WDivStep(s2.r, n[1], d)
    IN  CASE Computed(<<s5, s4, s3, s2, s1>>) ->
            [q |-> <<s1.q, s2.q, s3.q, s4.q, s5.q, 0, 0, 0>>, r |-> s1.r]

(* round(n / (k * 2^s)) with ties to even, for k in 1..65535 and s >= 1   *)
WRoundDiv(n, k, s) == Calc("WRoundDiv", n, k, s, 0, 0, 0, 0)

WRoundDivImpl(n, k, s) ==
    LET sh == WShr(n, s - 1)
        t == WDivSmall(sh.q, k)
        h == WShr(t.q, 1).q
        inexact == sh.sticky \/ t.r /= 0
        up == t.q[1] % 2 = 1 /\ (inexact \/ h[1] % 2 = 1)
    IN  IF up THEN WAdd(h, WOne) ELSE h

----------------------------------------------------------------------------
(* Binary floating point (IEEE 754 double precision, round to nearest,     *)
(* ties to even), which is what Python's float arithmetic is.  A value is  *)
(* s * m * 2^e with s in {-1, 0, 1} and, unless it is 0, 2^52 <= m < 2^53. *)
(* The values the program computes are far from the overflow and the       *)
(* subnormal range, so the exponent is not bounded.                        *)

FZero == [s |-> 0, m |-> WZero, e |-> 0]

(* the double nearest to s * n * 2^e (+ a fraction of the last bit of n    *)
(* when sticky), n a natural number                                        *)
FRound(s, n, e, sticky) == Calc("FRound", s, n, e, sticky, 0, 0, 0)

FRoundImpl(s, n, e, sticky) ==
    LET len == WBitLen(n)
    IN  IF len = 0 THEN FZero
        ELSE IF len <= 53
        THEN [s |-> s, m |-> WShl(n, 53 - len), e |-> e - (53 - len)]
        ELSE LET sh == WShr(n, len - 54)
                 h == WShr(sh.q, 1).q
                 up == sh.q[1] % 2 = 1 /\ (sh.sticky \/ sticky \/ h[1] % 2 = 1)
                 m1 == IF up THEN WAdd(h, WOne) ELSE h
             IN  IF WBitLen(m1) = 54
                 THEN [s |-> s, m |-> WShr(m1, 1).q, e |-> e + len - 52]
                 ELSE [s |-> s, m |-> m1, e |-> e + len - 53]

(* the double nearest to s * (n / d) * 2^e for natural numbers n > 0 and   *)
(* 0 < d < 2^56                                                            *)
FQuotient(s, n, d, e) == Calc("FQuotient", s, n, d, e, 0, 0, 0)

FQuotientImpl(s, n, d, e) ==
    LET sn == 112 - WBitLen(n)
        sd == 56 - WBitLen(d)
        num == WShl(n, sn)
        den == WShl(d, sd)
    IN  CASE Computed(<<num, den>>) ->
            LET x == WDivMod(num, den)
            IN  FRound(s, x.q, e + sd - sn, x.r /= WZero)

(* float(n) for an integer n                                               *)
FInt(n) == Calc("FInt", n, 0, 0, 0, 0, 0, 0)

FIntImpl(n) ==
    IF n = 0 THEN FZero
    ELSE FRound(IF n < 0 THEN -1 ELSE 1, WInt(IF n < 0 THEN -n ELSE n), 0, FALSE)

FNeg(a) == [a EXCEPT !.s = -a.s]

FMul(a, b) == Calc("FMul", a, b, 0, 0, 0, 0, 0)

FMulImpl(a, b) ==
    IF a.s = 0 \/ b.s = 0 THEN FZero
    ELSE FRound(a.s * b.s, WMul(a.m, b.m), a.e + b.e, FALSE)

FDiv(a, b) == Calc("FDiv", a, b, 0, 0, 0, 0, 0)

FDivImpl(a, b) ==
    IF a.s = 0 THEN FZero
    ELSE CASE Computed(b) -> FQuotient(a.s * b.s, a.m, b.m, a.e - b.e)

(* a + b; an operand more than 58 binary places below the other does not   *)
(* reach the last bit of the sum                                           *)
FAdd(a, b) == Calc("FAdd", a, b, 0, 0, 0, 0, 0)

FAddImpl(a, b) ==
    IF a.s = 0 THEN b
    ELSE IF b.s = 0 THEN a
    ELSE IF a.e - b.e > 58 THEN a
    ELSE IF b.e - a.e > 58 THEN b
    ELSE LET e == IF a.e <= b.e THEN a.e ELSE b.e
             x == WShl(a.m, a.e - e)
             y == WShl(b.m, b.e - e)
             c == WCmp(x, y)
         IN  IF a.s = b.s THEN FRound(a.s, WAdd(x, y), e, FALSE)
             ELSE IF c = 0 THEN FZero
             ELSE IF c > 0 THEN FRound(a.s, WSub(x, y), e, FALSE)
             ELSE FRound(b.s, WSub(y, x), e, FALSE)

FSub(a, b) == FAdd(a, FNeg(b))

(* the sign of a - b                                                       *)
FCmp(a, b) == Calc("FCmp", a, b, 0, 0, 0, 0, 0)

FCmpImpl(a, b) == FSub(a, b).s

(* min(a, b) and max(a, b) of Python: b when it is smaller (larger), else a *)
FMin(a, b) == CASE Computed(b) -> IF FCmp(b, a) < 0 THEN b ELSE a

FMax(a, b) == CASE Computed(b) -> IF FCmp(b, a) > 0 THEN b ELSE a

(* the double nearest to n/d for integers n and d > 0: the float literal   *)
(* of the source text (1.55 is FRat(155, 100)), the float a decimal value  *)
(* of the input is stored as, and the result of round(), which returns the *)
(* double nearest to the decimal it rounds to                              *)
FRat(n, d) == Calc("FRat", n, d, 0, 0, 0, 0, 0)

FRatImpl(n, d) ==
    IF n = 0 THEN FZero
    ELSE IF d = 1 THEN FInt(n)
    ELSE IF d < 131072
    THEN LET t == WDivSmall(WShl(WInt(IF n < 0 THEN -n ELSE n), 72), d)
         IN  FRound(IF n < 0 THEN -1 ELSE 1, t.q, -72, t.r /= 0)
    ELSE FQuotient(IF n < 0 THEN -1 ELSE 1, WInt(IF n < 0 THEN -n ELSE n), WInt(d), 0)

(* round(x, digits) as an integer number of units of 10^-digits, for       *)
(* digits in -1..4 and |x| < 2^31 / 10^digits: Python rounds the exact     *)
(* binary value, ties to even                                              *)
PyRound(x, digits) == Calc("PyRound", x, digits, 0, 0, 0, 0, 0)

PyRoundImpl(x, digits) ==
    IF x.s = 0 THEN 0
    ELSE LET n == IF digits >= 0 THEN WMulSmall(x.m, 10 ^ digits) ELSE x.m
             k == IF digits >= 0 THEN 1 ELSE 10 ^ (-digits)
         IN  x.s * WToInt(WRoundDiv(n, k, -x.e))

----------------------------------------------------------------------------
(* The floating point expression a value of the program was computed by,   *)
(* as a term: <<"lit", n, d>> is the double nearest to n/d, <<op, a, b>>   *)
(* the operation op on the values of the terms a and b.  FEval evaluates a *)
(* term as Python does, every operation rounded to a double.               *)

FLit(n, d) == <<"lit", n, d>>

FSum(a, b) == <<"+", a, b>>

FDiff(a, b) == <<"-", a, b>>

FProd(a, b) == <<"*", a, b>>

FQuot(a, b) == <<"/", a, b>>

FLeast(a, b) == <<"min", a, b>>

FMost(a, b) == <<"max", a, b>>

FSumOf(ts) == <<"sum", ts>>

RECURSIVE FEval(_)
RECURSIVE FTotal(_, _, _)
(* sum(ts), which adds the values from left to right, starting from 0:     *)
(* acc is the sum of the values before ts[i]                               *)
FTotal(ts, i, acc) == Calc("FTotal", ts, i, acc, 0, 0, 0, 0)

FTotalImpl(ts, i, acc) ==
    IF i > Len(ts) THEN acc
    ELSE LET v == FAdd(acc, FEval(ts[i]))
         IN  CASE Computed(v) -> FTotal(ts, i + 1, v)

FEval(t) == Calc("FEval", t, 0, 0, 0, 0, 0, 0)

FEvalImpl(t) ==
    CASE t[1] = "lit" -> FRat(t[2], t[3])
      [] t[1] = "+"   -> FAdd(FEval(t[2]), FEval(t[3]))
      [] t[1] = "-"   -> FSub(FEval(t[2]), FEval(t[3]))
      [] t[1] = "*"   -> FMul(FEval(t[2]), FEval(t[3]))
      [] t[1] = "/"   -> FDiv(FEval(t[2]), FEval(t[3]))
      [] t[1] = "min" -> FMin(FEval(t[2]), FEval(t[3]))
      [] t[1] = "max" -> FMax(FEval(t[2]), FEval(t[3]))
      [] t[1] = "sum" -> FTotal(t[2], 1, FZero)

(* the sign of a - b for the values of two terms                           *)
FTermCmp(a, b) == Calc("FTermCmp", a, b, 0, 0, 0, 0, 0)

FTermCmpImpl(a, b) ==
    LET x == FEval(a)
        y == FEval(b)
    IN  CASE Computed(<<x, y>>) -> FCmp(x, y)
----------------------------------------------------------------------------
(* Fixed point numbers with 16 decimal places, for the Poisson masses and  *)
(* their sums: <<a0, a1, a2, a3, a4>> is a0 + a1/10^4 + a2/10^8 + a3/10^12 *)
(* + a4/10^16 with a1..a4 in 0..9999.  The program works with doubles,     *)
(* which carry the same 16 significant digits; every operation below is    *)
(* off by less than 3 units of the last place.                             *)

XZero == <<0, 0, 0, 0, 0>>

XOne == <<1, 0, 0, 0, 0>>

(* the number with limbs c0..c4 that may lie outside 0..9999               *)
XNorm(c0, c1, c2, c3, c4) ==
    LET t3 == c3 + c4 \div 10000
        t2 == c2 + t3 \div 10000
        t1 == c1 + t2 \div 10000
    IN  <<c0 + t1 \div 10000, t1 % 10000, t2 % 10000, t3 % 10000, c4 % 10000>>

XAdd(a, b) == XNorm(a[1] + b[1], a[2] + b[2], a[3] + b[3], a[4] + b[4], a[5] + b[5])

(* a - b for a >= b                                                        *)
XSub(a, b) == XNorm(a[1] - b[1], a[2] - b[2], a[3] - b[3], a[4] - b[4], a[5] - b[5])

(* a * k for an integer 0 <= k <= 200000                                   *)
XMulSmall(a, k) == XNorm(a[1] * k, a[2] * k, a[3] * k, a[4] * k, a[5] * k)

(* floor of a / k at the last place, for an integer 1 <= k <= 200000       *)
XDivSmall(a, k) ==
    LET t1 == (a[1] % k) * 10000 + a[2]
        t2 == (t1 % k) * 10000 + a[3]
        t3 == (t2 % k) * 10000 + a[4]
        t4 == (t3 % k) * 10000 + a[5]
    IN  XNorm(a[1] \div k, t1 \div k, t2 \div k, t3 \div k, t4 \div k)

(* a * b, cut at the last place                                            *)
XMul(a, b) ==
    LET c6 == a[3] * b[5] + a[4] * b[4] + a[5] * b[3]
        c5 == a[2] * b[5] + a[3] * b[4] + a[4] * b[3] + a[5] * b[2] + c6 \div 10000
        c4 == a[1] * b[5] + a[2] * b[4] + a[3] * b[3] + a[4] * b[2] + a[5] * b[1]
              + c5 \div 10000
        c3 == a[1] * b[4] + a[2] * b[3] + a[3] * b[2] + a[4] * b[1]
        c2 == a[1] * b[3] + a[2] * b[2] + a[3] * b[1]
        c1 == a[1] * b[2] + a[2] * b[1]
    IN  XNorm(a[1] * b[1], c1, c2, c3, c4)

XLess(a, b) ==
    \E i \in 1..5 : a[i] < b[i] /\ \A j \in 1..(i - 1) : a[j] = b[j]

(* 1/e                                                                     *)
EXP_MINUS_1 == <<0, 3678, 7944, 1171, 4423>>

(* term n of the series of exp(-y) and the sum up to it, from the pair    *)
(* <<term n - 1, sum up to it>>                                            *)
ExpTerm(y, n, st) ==
    LET tn == XDivSmall(XMul(st[1], y), n)
    IN  <<tn, IF n % 2 = 1 THEN XSub(st[2], tn) ELSE XAdd(st[2], tn)>>

RECURSIVE ExpSeries(_, _, _)
(* the series 1 - y + y^2/2! - ... of exp(-y), 0 <= y < 1, from term n on: *)
(* st is <<term n - 1, sum up to it>>; it ends with term 20, or with the   *)
(* first term below the last place                                         *)
ExpSeries(y, n, st) ==
    IF n > 20 \/ st[1] = XZero THEN st[2]
    ELSE ExpSeries(y, n + 1, ExpTerm(y, n, st))

RECURSIVE XPow(_, _)
XPow(a, k) == IF k = 0 THEN XOne ELSE XMul(a, XPow(a, k - 1))

(* exp(-x) for x >= 0: exp(-1)^floor(x) * exp(-(x - floor(x)))              *)
ExpNeg(x) ==
    XMul(XPow(EXP_MINUS_1, x[1]),
         ExpSeries(<<0, x[2], x[3], x[4], x[5]>>, 1, <<XOne, XOne>>))

RECURSIVE PmfSeq(_, _, _)
(* <<pmf(0; mu), ..., pmf(kmax; mu)>> as a sequence indexed from 1         *)
PmfSeq(mu, kmax, acc) ==
    IF Len(acc) > kmax THEN acc
    ELSE LET k == Len(acc)
         IN  PmfSeq(mu, kmax, Append(acc, XDivSmall(XMul(acc[k], mu), k)))

(* scipy.stats.poisson.pmf(k, mu) for k = 0..kmax: the value for k is at   *)
(* index k + 1                                                             *)
poisson_pmf(mu, kmax) == PmfSeq(mu, kmax, <<ExpNeg(mu)>>)

XMax(a, b) == IF XLess(a, b) THEN b ELSE a

(* |a - b| < 10^-8: a and b are so close that the rounding errors of the   *)
(* doubles decide how the program compares them                            *)
XNear(a, b) == Calc("XNear", a, b, 0, 0, 0, 0, 0)

XNearImpl(a, b) ==
    LET diff == IF XLess(a, b) THEN XSub(b, a) ELSE XSub(a, b)
    IN  diff[1] = 0 /\ diff[2] = 0 /\ diff[3] = 0

(* 10^16                                                                   *)
TenTo16 == WMulSmall(WMulSmall(WMulSmall(WMulSmall(WOne, 10000), 10000), 10000), 10000)

(* the double nearest to x                                                 *)
XFloat(x) == Calc("XFloat", x, 0, 0, 0, 0, 0, 0)

XFloatImpl(x) ==
    LET n1 == WAdd(WMulSmall(WInt(x[1]), 10000), WInt(x[2]))
        n2 == WAdd(WMulSmall(n1, 10000), WInt(x[3]))
        n3 == WAdd(WMulSmall(n2, 10000), WInt(x[4]))
        n4 == WAdd(WMulSmall(n3, 10000), WInt(x[5]))
    IN  IF n4 = WZero THEN FZero ELSE FQuotient(1, n4, TenTo16, 0)

(* x for a value of v units of 10^-8                                       *)
XOfE8(v) == <<v \div 100000000, (v \div 10000) % 10000, v % 10000, 0, 0>>

(* round(x, 4) in units of 10^-4, for the sum x of doubles: away from a    *)
(* tie the nearest multiple of 10^-4, at a tie what Python's round makes   *)
(* of the double                                                           *)
Round4(x) ==
    LET q == x[1] * 10000 + x[2]
        tie == <<x[1], x[2], 5000, 0, 0>>
    IN  IF XNear(x, tie) THEN PyRound(XFloat(x), 4)
        ELSE IF XLess(x, tie) THEN q
        ELSE q + 1

----------------------------------------------------------------------------
(* PoissonModel (src/analyzer/poisson_model.py)                            *)

(* league averages in hundredths                                           *)
DEFAULT_HOME_LAMBDA == 155

DEFAULT_AWAY_LAMBDA == 115

(* the default of dict.get in get_expected_goals: {"attack": 1.0, "defense": 1.0} *)
DefaultRating == [attack |-> 1000, defense |-> 1000]

RatingOf(ratings, team) ==
    IF team \in DOMAIN ratings THEN ratings[team] ELSE DefaultRating

(* faulty variant of StoreAfterGet: the lookup stores the default it       *)
(* returns, as dict.setdefault does                                        *)
StoreAfterSetdefault(ratings, team) ==
    IF team \in DOMAIN ratings THEN ratings
    ELSE [t \in DOMAIN ratings \cup {team} |->
             IF t = team THEN DefaultRating ELSE ratings[t]]

(* team_ratings after `self.team_ratings.get(team, default)`: dict.get      *)
(* returns the default without storing it                                  *)
(* faulty variant: the lookup takes the entry out of the store             *)
(* (ratings.pop(team, default) in place of ratings.get(team, default))      *)
StoreAfterPop(ratings, team) ==
    [t \in DOMAIN ratings \ {team} |-> ratings[t]]

StoreAfterGet(ratings, team) == ratings

(* team_ratings after get_expected_goals(home_team, away_team)             *)
StoreAfterExpectedGoals(ratings, home_team, away_team) ==
    StoreAfterGet(StoreAfterGet(ratings, home_team), away_team)

(* home_r["attack"] / ["defense"] raise KeyError on an entry without the key *)
get_expected_goals_raises(ratings, home_team, away_team) ==
    \/ ~({"attack", "defense"} \subseteq DOMAIN RatingOf(ratings, home_team))
    \/ ~({"attack", "defense"} \subseteq DOMAIN RatingOf(ratings, away_team))

(* An expected goals value: x is its value to 16 decimal places, f the     *)
(* floating point expression the program computes it by.                   *)

(* league_avg * attack * defense for a league average in hundredths and    *)
(* ratings in thousandths: the product is a whole number of units of 10^-8 *)
XgProduct(league_avg, attack, defense) ==
    [x |-> XOfE8(league_avg * attack * defense),
     f |-> FProd(FProd(FLit(league_avg, 100), FLit(attack, 1000)),
                 FLit(defense, 1000))]

get_expected_goals(ratings, home_team, away_team) ==
    LET home_r == RatingOf(ratings, home_team)
        away_r == RatingOf(ratings, away_team)
    IN  [home_xg |-> XgProduct(DEFAULT_HOME_LAMBDA, home_r.attack, away_r.defense),
         away_xg |-> XgProduct(DEFAULT_AWAY_LAMBDA, away_r.attack, home_r.defense)]

(* xg * factor for a factor that is n/d exactly                            *)
XgTimes(xg, n, d, factor) ==
    [x |-> XDivSmall(XMulSmall(xg.x, n), d), f |-> FProd(xg.f, factor)]

(* the value 0.0 adjust_for_live returns from minute 90 on                 *)
XgZero == [x |-> XZero, f |-> FLit(0, 1)]

(* 1 + min(0.3, |goal_diff| * 0.15) in hundredths                          *)
UrgencyFactor(goal_diff) == 100 + Min(30, Abs(goal_diff) * 15)

(* the same factor as the program computes it                              *)
UrgencyTerm(goal_diff) ==
    FSum(FLit(1, 1), FLeast(FLit(3, 10), FProd(FLit(Abs(goal_diff), 1), FLit(15, 100))))

(* remaining_fraction = (90 - minute) / 90                                 *)
RemainingTerm(minute) == FQuot(FLit(90 - minute, 1), FLit(90, 1))

(* fatigue = 1 - ((minute - 75) / 90 * 0.1), which is 1 - (minute - 75)/900 *)
FatigueTerm(minute) ==
    FDiff(FLit(1, 1), FProd(FQuot(FLit(minute - 75, 1), FLit(90, 1)), FLit(1, 10)))

(* adjust_for_live with the urgency boost given to the side that leads     *)
AdjustBoostingLeader(home_xg, away_xg, home_score, away_score, minute) ==
    IF minute >= 90 THEN [home_xg |-> XgZero, away_xg |-> XgZero]
    ELSE
      LET home_remaining == XgTimes(home_xg, 90 - minute, 90, RemainingTerm(minute))
          away_remaining == XgTimes(away_xg, 90 - minute, 90, RemainingTerm(minute))
          goal_diff == home_score - away_score
          home_u == IF goal_diff > 0
                    THEN XgTimes(home_remaining, UrgencyFactor(goal_diff), 100,
                                 UrgencyTerm(goal_diff))
                    ELSE home_remaining
          away_u == IF goal_diff < 0
                    THEN XgTimes(away_remaining, UrgencyFactor(goal_diff), 100,
                                 UrgencyTerm(goal_diff))
                    ELSE away_remaining
      IN  IF minute > 75
          THEN [home_xg |-> XgTimes(home_u, 900 - (minute - 75), 900, FatigueTerm(minute)),
                away_xg |-> XgTimes(away_u, 900 - (minute - 75), 900, FatigueTerm(minute))]
          ELSE [home_xg |-> home_u, away_xg |-> away_u]

adjust_for_live(home_xg, away_xg, home_score, away_score, minute) ==
    IF minute >= 90 THEN [home_xg |-> XgZero, away_xg |-> XgZero]
    ELSE
      LET home_remaining == XgTimes(home_xg, 90 - minute, 90, RemainingTerm(minute))
          away_remaining == XgTimes(away_xg, 90 - minute, 90, RemainingTerm(minute))
          goal_diff == home_score - away_score
          home_u == IF goal_diff < 0
                    THEN XgTimes(home_remaining, UrgencyFactor(goal_diff), 100,
                                 UrgencyTerm(goal_diff))
                    ELSE home_remaining
          away_u == IF goal_diff > 0
                    THEN XgTimes(away_remaining, UrgencyFactor(goal_diff), 100,
                                 UrgencyTerm(goal_diff))
                    ELSE away_remaining
      IN  IF minute > 75
          THEN [home_xg |-> XgTimes(home_u, 900 - (minute - 75), 900, FatigueTerm(minute)),
                away_xg |-> XgTimes(away_u, 900 - (minute - 75), 900, FatigueTerm(minute))]
          ELSE [home_xg |-> home_u, away_xg |-> away_u]

(* max_goals of score_probability_matrix                                   *)
MAX_GOALS == 7

MatrixOf(ph, pa) ==
    [i \in 0..MAX_GOALS |-> [j \in 0..MAX_GOALS |-> XMul(ph[i + 1], pa[j + 1])]]

(* matrix[i][j] = pmf(i; home_xg) * pmf(j; away_xg), i, j in 0..max_goals  *)
score_probability_matrix(home_xg, away_xg) ==
    LET ph == poisson_pmf(home_xg.x, MAX_GOALS)
        pa == poisson_pmf(away_xg.x, MAX_GOALS)
    IN  CASE Computed(<<ph, pa>>) -> MatrixOf(ph, pa)

(* CellCounts with a drawn final score counted for the home side           *)
CellCountsDrawAsHome(acc, fh, fa) ==
    CASE acc = "home_win_p"      -> fh >= fa
      [] acc = "draw_p"          -> fh = fa
      [] acc = "away_win_p"      -> fh < fa
      [] acc = "total_goals_ge3" -> fh + fa >= 3
      [] acc = "total_goals_ge4" -> fh + fa >= 4
      [] acc = "btts_p"          -> fh > 0 /\ fa > 0

(* The condition under which a cell (i, j) of the matrix is added to one   *)
(* accumulator of get_all_probabilities; fh, fa are the final scores.      *)
CellCounts(acc, fh, fa) ==
    CASE acc = "home_win_p"      -> fh > fa
      [] acc = "draw_p"          -> fh = fa
      [] acc = "away_win_p"      -> fh < fa
      [] acc = "total_goals_ge3" -> fh + fa >= 3
      [] acc = "total_goals_ge4" -> fh + fa >= 4
      [] acc = "btts_p"          -> fh > 0 /\ fa > 0

RECURSIVE SumRow(_, _, _, _, _, _, _)
(* The inner loop of get_all_probabilities, for one accumulator: `sum` is  *)
(* its value before cell (i, j), the result its value after row i.         *)
SumRow(matrix, acc, home_score, away_score, i, j, sum) ==
    IF j > MAX_GOALS THEN sum
    ELSE LET next == IF CellCounts(acc, home_score + i, away_score + j)
                     THEN XAdd(sum, matrix[i][j]) ELSE sum
         IN  CASE Computed(next) ->
                 SumRow(matrix, acc, home_score, away_score, i, j + 1, next)

RECURSIVE SumCells(_, _, _, _, _, _)
(* The double loop of get_all_probabilities, for one accumulator: `sum` is *)
(* its value before row i, the result its value after the last row.        *)
SumCells(matrix, acc, home_score, away_score, i, sum) ==
    IF i > MAX_GOALS THEN sum
    ELSE LET next == SumRow(matrix, acc, home_score, away_score, i, 0, sum)
         IN  CASE Computed(next) ->
                 SumCells(matrix, acc, home_score, away_score, i + 1, next)

(* the six accumulators of get_all_probabilities after the loop            *)
Aggregate(matrix, home_score, away_score) ==
    CASE Computed(matrix) ->
    [acc \in {"home_win_p", "draw_p", "away_win_p",
              "total_goals_ge3", "total_goals_ge4", "btts_p"} |->
        SumCells(matrix, acc, home_score, away_score, 0, XZero)]

_final_probabilities(home_score, away_score) ==
    LET total == home_score + away_score
    IN  [home_win |-> IF home_score > away_score THEN 9700 ELSE 100,
         draw     |-> IF home_score = away_score THEN 9700 ELSE 100,
         away_win |-> IF away_score > home_score THEN 9700 ELSE 100,
         over_25  |-> IF total > 2 THEN 9900 ELSE 100,
         under_25 |-> IF total <= 2 THEN 9900 ELSE 100,
         over_35  |-> IF total > 3 THEN 9900 ELSE 100,
         under_35 |-> IF total <= 3 THEN 9900 ELSE 100,
         btts     |-> IF home_score > 0 /\ away_score > 0 THEN 9900 ELSE 100,
         btts_no  |-> IF home_score = 0 \/ away_score = 0 THEN 9900 ELSE 100,
         home_xg |-> 0, away_xg |-> 0,
         base_home_xg |-> 0, base_away_xg |-> 0,
         branch |-> "final"]

(* the threshold 0.01 of the "game essentially over" test                  *)
XG_EPS == <<0, 100, 0, 0, 0>>

(* `xg < 0.01`                                                             *)
XgNegligible(xg) ==
    IF XNear(xg.x, XG_EPS) THEN FTermCmp(xg.f, FLit(1, 100)) < 0
    ELSE XLess(xg.x, XG_EPS)

(* round(xg, 2) in hundredths: away from a tie the nearest hundredth, at a *)
(* tie what Python's round makes of the double                             *)
Round2(xg) ==
    LET q == xg.x[1] * 100 + xg.x[2] \div 100
        tie == <<xg.x[1], (xg.x[2] \div 100) * 100 + 50, 0, 0, 0>>
    IN  IF XNear(xg.x, tie) THEN PyRound(FEval(xg.f), 2)
        ELSE IF XLess(xg.x, tie) THEN q
        ELSE q + 1

(* RoundSums with under_25 taken from the accumulator of four or more      *)
(* goals                                                                   *)
RoundSumsWrongAccumulator(sums, xg, base) ==
    [home_win |-> Round4(sums.home_win_p),
     draw     |-> Round4(sums.draw_p),
     away_win |-> Round4(sums.away_win_p),
     over_25  |-> Round4(sums.total_goals_ge3),
     under_25 |-> Round4(XSub(XOne, sums.total_goals_ge4)),
     over_35  |-> Round4(sums.total_goals_ge4),
     under_35 |-> Round4(XSub(XOne, sums.total_goals_ge4)),
     btts     |-> Round4(sums.btts_p),
     btts_no  |-> Round4(XSub(XOne, sums.btts_p)),
     home_xg |-> Round2(xg.home_xg), away_xg |-> Round2(xg.away_xg),
     base_home_xg |-> Round2(base.home_xg),
     base_away_xg |-> Round2(base.away_xg),
     branch |-> "matrix"]

(* the dictionary get_all_probabilities returns from the accumulators      *)
RoundSums(sums, xg, base) == Calc("RoundSums", sums, xg, base, 0, 0, 0, 0)

RoundSumsImpl(sums, xg, base) ==
    [home_win |-> Round4(sums.home_win_p),
     draw     |-> Round4(sums.draw_p),
     away_win |-> Round4(sums.away_win_p),
     over_25  |-> Round4(sums.total_goals_ge3),
     under_25 |-> Round4(XSub(XOne, sums.total_goals_ge3)),
     over_35  |-> Round4(sums.total_goals_ge4),
     under_35 |-> Round4(XSub(XOne, sums.total_goals_ge4)),
     btts     |-> Round4(sums.btts_p),
     btts_no  |-> Round4(XSub(XOne, sums.btts_p)),
     home_xg |-> Round2(xg.home_xg), away_xg |-> Round2(xg.away_xg),
     base_home_xg |-> Round2(base.home_xg),
     base_away_xg |-> Round2(base.away_xg),
     branch |-> "matrix"]

(* the remaining expected goals get_all_probabilities works with           *)
LiveXg(ratings, home_team, away_team, home_score, away_score, minute) ==
    Calc("LiveXg", ratings, home_team, away_team, home_score, away_score,
         minute, 0)

LiveXgImpl(ratings, home_team, away_team, home_score, away_score, minute) ==
    LET base == get_expected_goals(ratings, home_team, away_team)
    IN  IF minute > 0
        THEN adjust_for_live(base.home_xg, base.away_xg, home_score, away_score, minute)
        ELSE base

(* get_all_probabilities without its "game essentially over" test: the     *)
(* matrix is built whatever the remaining expected goals                   *)
AllProbabilitiesFromMatrix(ratings, home_team, away_team, home_score, away_score, minute) ==
    LET base == get_expected_goals(ratings, home_team, away_team)
        xg == LiveXg(ratings, home_team, away_team, home_score, away_score, minute)
    IN  RoundSums(Aggregate(score_probability_matrix(xg.home_xg, xg.away_xg),
                            home_score, away_score), xg, base)

(* Market probabilities in e4, xG in hundredths; "branch" records which    *)
(* return statement produced the result.                                   *)
get_all_probabilities(ratings, home_team, away_team, home_score, away_score, minute) ==
    Calc("get_all_probabilities", ratings, home_team, away_team, home_score,
         away_score, minute, 0)

get_all_probabilitiesImpl(ratings, home_team, away_team, home_score, away_score, minute) ==
    LET base == get_expected_goals(ratings, home_team, away_team)
        xg == LiveXg(ratings, home_team, away_team, home_score, away_score, minute)
    IN  IF XgNegligible(xg.home_xg) /\ XgNegligible(xg.away_xg)
        THEN _final_probabilities(home_score, away_score)
        ELSE
          LET sums == Aggregate(score_probability_matrix(xg.home_xg, xg.away_xg),
                                home_score, away_score)
          IN  RoundSums(sums, xg, base)

RECURSIVE BestInRow(_, _, _, _, _)
(* the inner loop of get_most_likely_final_score, over add_a in range(6)   *)
(* from add_a on: best is <<best_p, best_score>>, and the first strictly   *)
(* larger mass wins                                                        *)
BestInRow(ph, pa, add_h, add_a, best) ==
    IF add_a > 5 THEN best
    ELSE LET p == XMul(ph[add_h + 1], pa[add_a + 1])
         IN  IF XLess(best[1], p)
             THEN BestInRow(ph, pa, add_h, add_a + 1, <<p, <<add_h, add_a>>>>)
             ELSE BestInRow(ph, pa, add_h, add_a + 1, best)

RECURSIVE BestScore(_, _, _, _)
(* the outer loop of get_most_likely_final_score, over add_h in range(6)   *)
(* from add_h on: the score added to the current one                       *)
BestScore(ph, pa, add_h, best) ==
    IF add_h > 5 THEN best[2]
    ELSE LET row == BestInRow(ph, pa, add_h, 0, best)
         IN  CASE Computed(row) -> BestScore(ph, pa, add_h + 1, row)

(* the expected goals get_most_likely_final_score works with: always       *)
(* through adjust_for_live                                                 *)
MostLikelyXg(ratings, home_team, away_team, home_score, away_score, minute) ==
    LET base == get_expected_goals(ratings, home_team, away_team)
    IN  adjust_for_live(base.home_xg, base.away_xg, home_score, away_score, minute)

get_most_likely_final_score(ratings, home_team, away_team, home_score, away_score, minute) ==
    LET xg == MostLikelyXg(ratings, home_team, away_team, home_score, away_score, minute)
        ph == poisson_pmf(XMax(xg.home_xg.x, XG_EPS), 5)
        pa == poisson_pmf(XMax(xg.away_xg.x, XG_EPS), 5)
        add == BestScore(ph, pa, 0, <<XZero, <<0, 0>>>>)
    IN  <<home_score + add[1], away_score + add[2]>>

----------------------------------------------------------------------------
(* Configuration (src/config.py)                                           *)

(* STAKE_CONFIG: { min_confidence: (min_stake, max_stake) }                *)
STAKE_CONFIG ==
    (90 :> <<300, 500>>) @@ (75 :> <<200, 300>>) @@
    (60 :> <<150, 200>>) @@ (0 :> <<100, 150>>)

MIN_DISPLAY_CONFIDENCE == 50

AUTO_BET_THRESHOLD == 85

(* KELLY_FRACTION = 0.25, in hundredths                                    *)
KELLY_FRACTION == 25

MAX_BET_KES == 1000

----------------------------------------------------------------------------
(* LiveGame (src/scraper/base_scraper.py): odds fields are Optional[float] *)

None == -1

(* largest odds, in hundredths, for which the rational arithmetic below    *)
(* stays within 32 bits                                                    *)
MaxOddsH == 5000

----------------------------------------------------------------------------
(* ConfidenceEngine (src/predictor/confidence_engine.py)                   *)

BET_LABELS ==
    [home |-> "Home Win", draw |-> "Draw", away |-> "Away Win",
     over_25 |-> "Over 2.5 Goals", under_25 |-> "Under 2.5 Goals",
     over_35 |-> "Over 3.5 Goals", under_35 |-> "Under 3.5 Goals",
     btts |-> "Both Teams to Score", btts_no |-> "Both Teams NOT to Score"]

(* the list markets_to_check of analyze_game, in its order                 *)
markets_to_check(game, probs) ==
    << [bet_type |-> "home",     odds |-> game.odds_home_win, model_prob |-> probs.home_win],
       [bet_type |-> "draw",     odds |-> game.odds_draw,     model_prob |-> probs.draw],
       [bet_type |-> "away",     odds |-> game.odds_away_win, model_prob |-> probs.away_win],
       [bet_type |-> "over_25",  odds |-> game.odds_over_25,  model_prob |-> probs.over_25],
       [bet_type |-> "under_25", odds |-> game.odds_under_25, model_prob |-> probs.under_25],
       [bet_type |-> "btts",     odds |-> game.odds_btts_yes, model_prob |-> probs.btts],
       [bet_type |-> "btts_no",  odds |-> game.odds_btts_no,  model_prob |-> probs.btts_no] >>

(* `odds and odds > 1.0`: None and 0 are falsy                             *)
OddsUsable(odds) == odds /= None /\ odds /= 0 /\ odds > 100

(* potential_bet_found: some market with usable odds and model_prob > 0.4  *)
potential_bet_found(markets) ==
    \E k \in 1..Len(markets) :
        OddsUsable(markets[k].odds) /\ markets[k].model_prob > 4000

(* faulty variant of MarketSkipped: the `odds <= 1.0` test is missing      *)
MarketSkippedNoFloor(odds, model_prob) == odds = None \/ odds = 0 \/ model_prob <= 0

(* `if not odds or odds <= 1.0 or model_prob <= 0: continue`               *)
MarketSkipped(odds, model_prob) == ~OddsUsable(odds) \/ model_prob <= 0

(* A value of the scoring functions is a record: n/d is its exact value,   *)
(* in the units the comment of the definition names, and f the floating    *)
(* point expression the program computes it by.  The exact value and the   *)
(* double differ by less than 10^-12; they can be told apart only where    *)
(* the exact value lies on a threshold the program compares with, or on a  *)
(* tie of a rounding, and there the double decides.                        *)

(* The sign of x - c as the program sees it: kn/kd is c in the units of    *)
(* x.n/x.d, lit is c as the source text writes it.                         *)
NumCmp(x, kn, kd, lit) ==
    IF x.n * kd = kn * x.d THEN FTermCmp(x.f, lit)
    ELSE IF x.n * kd < kn * x.d THEN -1
    ELSE 1

(* NumCmp for a value whose double v the caller has at hand                *)
ValueCmp(x, v, kn, kd) ==
    IF x.n * kd = kn * x.d THEN FCmp(v, FRat(kn, kd))
    ELSE IF x.n * kd < kn * x.d THEN -1
    ELSE 1

(* implied_prob = 1.0 / odds, in units of 1                                *)
ImpliedProb(odds) ==
    [n |-> 100, d |-> odds, f |-> FQuot(FLit(1, 1), FLit(odds, 100))]

(* edge = model_prob - implied_prob, in e4 units                           *)
Edge(model_prob, odds) ==
    [n |-> model_prob * odds - 1000000, d |-> odds,
     f |-> FDiff(FLit(model_prob, 10000), ImpliedProb(odds).f)]

(* faulty variant of EdgeRejected: the floor at -0.20                      *)
EdgeRejectedLoose(edge) == NumCmp(edge, -2000, 1, FLit(-20, 100)) < 0

(* `if edge < -0.15: continue`                                             *)
EdgeRejected(edge) == NumCmp(edge, -1500, 1, FLit(-15, 100)) < 0

GCD(a, b) ==
    LET RECURSIVE G(_, _)
        G(x, y) == IF y = 0 THEN x ELSE G(y, x % y)
    IN  G(a, b)

(* b * p - q with b = odds - 1, p = prob, q = 1 - p, in units of 10^-6     *)
KellyNumerator(prob, odds) ==
    LET b == FDiff(FLit(odds, 100), FLit(1, 1))
        p == FLit(prob, 10000)
        q == FDiff(FLit(1, 1), p)
    IN  [n |-> (odds - 100) * prob - 100 * (10000 - prob), d |-> 1,
         f |-> FDiff(FProd(b, p), q)]

(* max(0, (b * p - q) / b) * config.KELLY_FRACTION                         *)
KellyTerm(prob, odds) ==
    FProd(FMost(FLit(0, 1),
                FQuot(KellyNumerator(prob, odds).f,
                      FDiff(FLit(odds, 100), FLit(1, 1)))),
          FLit(KELLY_FRACTION, 100))

(* faulty variant of _kelly_fraction: the cap at 0.15 is missing           *)
KellyUncapped(prob, odds) ==
    LET b == odds - 100
        q == 10000 - prob
    IN  IF b <= 0 THEN [n |-> 0, d |-> 1, f |-> FLit(0, 1)]
        ELSE [n |-> Max(0, b * prob - 100 * q) * KELLY_FRACTION, d |-> b * 100,
              f |-> KellyTerm(prob, odds)]

(* Kelly fraction in e4 units, for prob in e4 and odds in hundredths:      *)
(* b = odds - 1, kelly = max(0, (b*p - q) / b) * KELLY_FRACTION capped at  *)
(* 0.15                                                                    *)
_kelly_fraction(prob, odds) ==
    Calc("_kelly_fraction", prob, odds, 0, 0, 0, 0, 0)

_kelly_fractionImpl(prob, odds) ==
    LET b == odds - 100
        raw == [n |-> KellyNumerator(prob, odds).n, d |-> b]
        pos == [n |-> Max(0, raw.n), d |-> raw.d]
        scaled == [n |-> pos.n * KELLY_FRACTION, d |-> pos.d * 100]
        f == FLeast(KellyTerm(prob, odds), FLit(15, 100))
    IN  IF b <= 0 THEN [n |-> 0, d |-> 1, f |-> FLit(0, 1)]
        ELSE IF scaled.n > 1500 * scaled.d THEN [n |-> 1500, d |-> 1, f |-> f]
        ELSE [n |-> scaled.n, d |-> scaled.d, f |-> f]

(* `probs.get("home_xg", 0) + probs.get("away_xg", 0) > 1.2` for the        *)
(* rounded values in hundredths                                            *)
XgSumAbove(probs) ==
    IF probs.home_xg + probs.away_xg = 120
    THEN FTermCmp(FSum(FLit(probs.home_xg, 100), FLit(probs.away_xg, 100)),
                  FLit(12, 10)) > 0
    ELSE probs.home_xg + probs.away_xg > 120

_game_state_score(game, bet_type, probs) ==
    LET h == game.home_score
        a == game.away_score
        total == h + a
        diff == h - a
    IN  CASE bet_type = "over_25" ->
               IF total >= 2 /\ game.minute < 60 THEN 90
               ELSE IF total >= 1 THEN 70
               ELSE IF XgSumAbove(probs) THEN 60
               ELSE 40
          [] bet_type = "under_25" ->
               IF total = 0 /\ game.minute > 55 THEN 88
               ELSE IF total <= 1 /\ game.minute > 40 THEN 70
               ELSE IF total >= 3 THEN 5
               ELSE 50
          [] bet_type \in {"home", "away", "draw"} ->
               IF bet_type = "home" /\ diff >= 1 THEN 80
               ELSE IF bet_type = "away" /\ diff <= -1 THEN 80
               ELSE IF bet_type = "draw" /\ diff = 0 THEN 75
               ELSE IF Abs(diff) <= 1 THEN 55
               ELSE 30
          [] bet_type = "btts" ->
               IF h > 0 /\ a > 0 THEN 95
               ELSE IF (h > 0 \/ a > 0) /\ game.minute < 65 THEN 65
               ELSE 40
          [] bet_type = "btts_no" ->
               IF h = 0 /\ a = 0 /\ game.minute > 50 THEN 85 ELSE 40
          [] OTHER -> 50

(* scores["model"], in tenths of a point, as a rational over 110:          *)
(* min(100, max(0, (p - 0.45) / 0.55) * 100) * 0.35                        *)
ModelScore(model_prob) ==
    [n |-> Min(38500, Max(0, 7 * (model_prob - 4500))), d |-> 110]

(* scores["edge"], in tenths, as a rational over 10 * edge.d:              *)
(* max(0, min(1, (edge + 0.05) / 0.25)) * 100 * 0.25                       *)
EdgeScore(edge) ==
    [n |-> Max(0, Min(2500 * edge.d, edge.n + 500 * edge.d)), d |-> 10 * edge.d]

(* odds = 1.0 / implied_prob if implied_prob > 0 else 100                  *)
OddsBack(implied_prob) ==
    IF implied_prob.n > 0
    THEN [n |-> implied_prob.d, d |-> implied_prob.n,
          f |-> FQuot(FLit(1, 1), implied_prob.f)]
    ELSE [n |-> 100, d |-> 1, f |-> FLit(100, 1)]

(* the ends of the bands of the odds score, in hundredths                  *)
BandEnds == <<110, 130, 500, 800>>

(* the doubles 1.0 / (1.0 / odds) for the odds at the ends of the bands,   *)
(* computed once                                                           *)
BandEndOdds ==
    <<FEval(OddsBack(ImpliedProb(BandEnds[1])).f),
      FEval(OddsBack(ImpliedProb(BandEnds[2])).f),
      FEval(OddsBack(ImpliedProb(BandEnds[3])).f),
      FEval(OddsBack(ImpliedProb(BandEnds[4])).f)>>

(* the double `odds` of _calculate_confidence: looked up for the implied   *)
(* probability of the odds at the end of a band, else computed             *)
OddsDouble(implied_prob) == Calc("OddsDouble", implied_prob, 0, 0, 0, 0, 0, 0)

OddsDoubleImpl(implied_prob) ==
    IF \E k \in 1..Len(BandEnds) : implied_prob = ImpliedProb(BandEnds[k])
    THEN BandEndOdds[CHOOSE k \in 1..Len(BandEnds) :
                         implied_prob = ImpliedProb(BandEnds[k])]
    ELSE FEval(OddsBack(implied_prob).f)

(* the bands 1.3 <= odds <= 5.0, 1.1 <= odds < 1.3 or 5.0 < odds <= 8.0    *)
OddsScore(implied_prob) == Calc("OddsScore", implied_prob, 0, 0, 0, 0, 0, 0)

OddsScoreImpl(implied_prob) ==
    LET odds == OddsBack(implied_prob)
        v == OddsDouble(implied_prob)
    IN  IF ValueCmp(odds, v, 13, 10) >= 0 /\ ValueCmp(odds, v, 5, 1) <= 0
        THEN 100
        ELSE IF \/ /\ ValueCmp(odds, v, 11, 10) >= 0
                   /\ ValueCmp(odds, v, 13, 10) < 0
                \/ /\ ValueCmp(odds, v, 5, 1) > 0
                   /\ ValueCmp(odds, v, 8, 1) <= 0
        THEN 60
        ELSE 20

(* faulty variant of TimeScore: the first quarter of an hour counts as the *)
(* middle of the game                                                      *)
TimeScoreFromKickoff(minute) ==
    IF minute <= 75 THEN 100
    ELSE IF 75 < minute /\ minute <= 80 THEN 70
    ELSE 30

TimeScore(minute) ==
    IF 15 <= minute /\ minute <= 75 THEN 100
    ELSE IF (10 <= minute /\ minute < 15) \/ (75 < minute /\ minute <= 80) THEN 70
    ELSE 30

(* scores["model"] = min(100, max(0, (model_prob - 0.45) / 0.55) * 100) * 0.35 *)
ModelTerm(model_prob) ==
    FProd(FLeast(FLit(100, 1),
                 FProd(FMost(FLit(0, 1),
                             FQuot(FDiff(FLit(model_prob, 10000), FLit(45, 100)),
                                   FLit(55, 100))),
                       FLit(100, 1))),
          FLit(35, 100))

(* (edge + 0.05) / 0.25                                                    *)
EdgeRatioTerm(edge) == FQuot(FSum(edge.f, FLit(5, 100)), FLit(25, 100))

(* scores["edge"] = max(0, min(1, (edge + 0.05) / 0.25)) * 100 * 0.25       *)
EdgeTerm(edge) ==
    FProd(FProd(FMost(FLit(0, 1), FLeast(FLit(1, 1), EdgeRatioTerm(edge))),
                FLit(100, 1)),
          FLit(25, 100))

(* sum(scores.values()): the scores are added in the order they were put   *)
(* into the dictionary (model, edge, state, odds, time)                    *)
TotalTerm(model, edge_part, state_score, odds_score, time_score) ==
    FSumOf(<<model, edge_part,
             FProd(FLit(state_score, 1), FLit(20, 100)),
             FProd(FLit(odds_score, 1), FLit(10, 100)),
             FProd(FLit(time_score, 1), FLit(10, 100))>>)

(* The weighted total before the final clamp, as a rational in tenths of a *)
(* point over the denominator 11 * (10 * edge.d)                           *)
ConfidenceTotal(model_prob, edge, state_score, odds_score, time_score) ==
    LET m == ModelScore(model_prob)
        e == EdgeScore(edge)
        rest == 2 * state_score + odds_score + time_score
    IN  [n |-> m.n * edge.d + 11 * e.n + rest * 110 * edge.d, d |-> 110 * edge.d]

(* faulty variant of _calculate_confidence: the weighted sum without the   *)
(* clamps on the edge score and on the total                               *)
ConfidenceUnclamped(model_prob, implied_prob, edge, kelly, game, bet_type, probs) ==
    LET m == ModelScore(model_prob)
        raw_edge == edge.n + 500 * edge.d
        state_score == _game_state_score(game, bet_type, probs)
        odds_score == OddsScore(implied_prob)
        time_score == TimeScore(game.minute)
        rest == 2 * state_score + odds_score + time_score
    IN  [n |-> m.n * edge.d + 11 * raw_edge + rest * 110 * edge.d, d |-> 110 * edge.d,
         f |-> TotalTerm(ModelTerm(model_prob),
                         FProd(FProd(EdgeRatioTerm(edge), FLit(100, 1)), FLit(25, 100)),
                         state_score, odds_score, time_score)]

(* confidence in tenths of a point: max(0, min(100, total))                *)
_calculate_confidence(model_prob, implied_prob, edge, kelly, game, bet_type, probs) ==
    Calc("_calculate_confidence", model_prob, implied_prob, edge, kelly, game,
         bet_type, probs)

_calculate_confidenceImpl(model_prob, implied_prob, edge, kelly, game, bet_type, probs) ==
    LET state_score == _game_state_score(game, bet_type, probs)
        odds_score == OddsScore(implied_prob)
        time_score == TimeScore(game.minute)
        total == ConfidenceTotal(model_prob, edge, state_score, odds_score, time_score)
        sum == TotalTerm(ModelTerm(model_prob), EdgeTerm(edge),
                         state_score, odds_score, time_score)
    IN  [n |-> Max(0, Min(1000 * total.d, total.n)), d |-> total.d,
         f |-> FMost(FLit(0, 1), FLeast(FLit(100, 1), sum))]

(* confidence >= c for a confidence in tenths and c in points              *)
ConfGe(confidence, c) == NumCmp(confidence, 10 * c, 1, FLit(c, 1)) >= 0

(* the keys of STAKE_CONFIG, highest first                                 *)
RECURSIVE SortedDesc(_)
SortedDesc(S) ==
    IF S = {} THEN <<>>
    ELSE LET mx == CHOOSE x \in S : \A y \in S : y <= x
         IN  <<mx>> \o SortedDesc(S \ {mx})

(* round(q + n/d) for an integer q, n >= 0, d > 0 and n/d not on a tie     *)
RoundOff(q, n, d) == q + NearestInt(n, d)

(* stake = min_s + (max_s - min_s) * frac with                             *)
(* frac = min(1.0, (confidence - min_conf) / 15)                           *)
StakeTerm(confidence, min_conf) ==
    FSum(FLit(STAKE_CONFIG[min_conf][1], 1),
         FProd(FLit(STAKE_CONFIG[min_conf][2] - STAKE_CONFIG[min_conf][1], 1),
               FLeast(FLit(1, 1),
                      FQuot(FDiff(confidence.f, FLit(min_conf, 1)), FLit(15, 1)))))

(* min(round(stake, -1), MAX_BET_KES) for the tier min_conf: the stake is  *)
(* q0 + num/den tens of KES; on a tie of the rounding the double decides   *)
StakeInTier(confidence, min_conf) ==
    LET min_s == STAKE_CONFIG[min_conf][1]
        max_s == STAKE_CONFIG[min_conf][2]
        above == confidence.n - 10 * min_conf * confidence.d
        fd == 150 * confidence.d
        fn == Max(0, Min(fd, above))
        g == GCD(Abs(max_s - min_s), 10)
        xn == ((max_s - min_s) \div g) * fn
        xd == (10 \div g) * fd
        q0 == min_s \div 10
        r0 == min_s % 10
        num == IF r0 = 0 THEN xn ELSE r0 * xd + 10 * xn
        den == IF r0 = 0 THEN xd ELSE 10 * xd
        tens == IF 2 * (num % den) = den
                THEN PyRound(FEval(StakeTerm(confidence, min_conf)), -1)
                ELSE RoundOff(q0, num, den)
    IN  Min(10 * tens, MAX_BET_KES)

(* faulty variant of _recommend_stake: the tiers are tried lowest first    *)
RecommendStakeLowestFirst(confidence, kelly) ==
    StakeInTier(confidence, 0)

_recommend_stake(confidence, kelly) ==
    Calc("_recommend_stake", confidence, kelly, 0, 0, 0, 0, 0)

_recommend_stakeImpl(confidence, kelly) ==
    LET keys == SortedDesc(DOMAIN STAKE_CONFIG)
        hit == {k \in 1..Len(keys) : ConfGe(confidence, keys[k])}
    IN  IF hit = {} THEN STAKE_CONFIG[0][1]
        ELSE StakeInTier(confidence, keys[CHOOSE k \in hit : \A j \in hit : k <= j])

_confidence_label(confidence) ==
    IF ConfGe(confidence, 85) THEN "Very High"
    ELSE IF ConfGe(confidence, 70) THEN "High"
    ELSE IF ConfGe(confidence, 55) THEN "Medium"
    ELSE "Low"

(* the warnings list of _build_reasoning, as tags in the order appended    *)
_build_reasoning(game, bet_type, model_prob, implied_prob, edge, probs, confidence) ==
    (IF game.minute > 75 THEN <<"volatile">> ELSE <<>>)
    \o (IF NumCmp(edge, 0, 1, FLit(0, 1)) < 0 THEN <<"negative_edge">> ELSE <<>>)
    \o (IF ~ConfGe(confidence, 60) THEN <<"low_confidence">> ELSE <<>>)

(* round(x, digits) in units of 10^-digits, for a value x whose n/d is in  *)
(* these units (round(edge, 4), round(kelly, 4), round(implied_prob, 4),   *)
(* round(confidence, 1)): away from a tie the nearest integer, on a tie    *)
(* what Python's round makes of the double                                 *)
RoundRat(x, digits) ==
    IF 2 * (x.n % x.d) = x.d THEN PyRound(FEval(x.f), digits)
    ELSE NearestInt(x.n, x.d)

(* faulty variant of BelowDisplay: the threshold 10 points too low         *)
BelowDisplayLow(confidence) == ~ConfGe(confidence, MIN_DISPLAY_CONFIDENCE - 10)

(* `if confidence < config.MIN_DISPLAY_CONFIDENCE: continue`               *)
BelowDisplay(confidence) == ~ConfGe(confidence, MIN_DISPLAY_CONFIDENCE)

(* One iteration of the market loop of analyze_game: the recommendation    *)
(* appended for the market, or <<>> when the iteration hits a `continue`.  *)
EvaluateMarket(game, probs, predicted_score, market) ==
    Calc("EvaluateMarket", game, probs, predicted_score, market, 0, 0, 0)

EvaluateMarketImpl(game, probs, predicted_score, market) ==
    LET bet_type == market.bet_type
        odds == market.odds
        model_prob == market.model_prob
        implied_prob == ImpliedProb(odds)
        edge == Edge(model_prob, odds)
        kelly == _kelly_fraction(model_prob, odds)
        confidence == _calculate_confidence(model_prob, implied_prob, edge, kelly,
                                            game, bet_type, probs)
    IN  IF MarketSkipped(odds, model_prob) THEN <<>>
        ELSE IF EdgeRejected(edge) THEN <<>>
        ELSE IF BelowDisplay(confidence) THEN <<>>
        ELSE << [game |-> game,
                 bet_type |-> bet_type,
                 bet_label |-> BET_LABELS[bet_type],
                 model_probability |-> model_prob,
                 implied_probability |-> RoundRat([implied_prob EXCEPT !.n = 10000 * @], 4),
                 edge |-> RoundRat(edge, 4),
                 odds |-> odds,
                 confidence |-> RoundRat(confidence, 1),
                 confidence_label |-> _confidence_label(confidence),
                 recommended_stake |-> _recommend_stake(confidence, kelly),
                 kelly_fraction |-> RoundRat(kelly, 4),
                 home_xg |-> probs.home_xg,
                 away_xg |-> probs.away_xg,
                 predicted_score |-> predicted_score,
                 warnings |-> _build_reasoning(game, bet_type, model_prob,
                                               implied_prob, edge, probs, confidence)] >>

(* the operators applied through Calc                                     *)
Calc(op, a, b, c, d, e, f, g) ==
    CASE op = "WNorm" -> WNormImpl(a)
      [] op = "WShr" -> WShrImpl(a, b)
      [] op = "WShl" -> WShlImpl(a, b)
      [] op = "WBitLen" -> WBitLenImpl(a)
      [] op = "WDivSmall" -> WDivSmallImpl(a, b)
      [] op = "WDivStep" -> WDivStepImpl(a, b, c)
      [] op = "WDivMod" -> WDivModImpl(a, b)
      [] op = "WRoundDiv" -> WRoundDivImpl(a, b, c)
      [] op = "FRound" -> FRoundImpl(a, b, c, d)
      [] op = "FQuotient" -> FQuotientImpl(a, b, c, d)
      [] op = "FAdd" -> FAddImpl(a, b)
      [] op = "FMul" -> FMulImpl(a, b)
      [] op = "FDiv" -> FDivImpl(a, b)
      [] op = "FInt" -> FIntImpl(a)
      [] op = "FCmp" -> FCmpImpl(a, b)
      [] op = "FRat" -> FRatImpl(a, b)
      [] op = "PyRound" -> PyRoundImpl(a, b)
      [] op = "FEval" -> FEvalImpl(a)
      [] op = "FTotal" -> FTotalImpl(a, b, c)
      [] op = "FTermCmp" -> FTermCmpImpl(a, b)
      [] op = "XNear" -> XNearImpl(a, b)
      [] op = "XFloat" -> XFloatImpl(a)
      [] op = "OddsScore" -> OddsScoreImpl(a)
      [] op = "OddsDouble" -> OddsDoubleImpl(a)
      [] op = "_calculate_confidence" -> _calculate_confidenceImpl(a, b, c, d, e, f, g)
      [] op = "_kelly_fraction" -> _kelly_fractionImpl(a, b)
      [] op = "_recommend_stake" -> _recommend_stakeImpl(a, b)
      [] op = "EvaluateMarket" -> EvaluateMarketImpl(a, b, c, d)
      [] op = "RoundSums" -> RoundSumsImpl(a, b, c)
      [] op = "get_all_probabilities" -> get_all_probabilitiesImpl(a, b, c, d, e, f)
      [] op = "LiveXg" -> LiveXgImpl(a, b, c, d, e, f)

RECURSIVE EvaluateMarkets(_, _, _, _, _)
(* the list `recommendations` after the loop over markets k..7             *)
EvaluateMarkets(game, probs, predicted_score, markets, k) ==
    IF k > Len(markets) THEN <<>>
    ELSE EvaluateMarket(game, probs, predicted_score, markets[k])
         \o EvaluateMarkets(game, probs, predicted_score, markets, k + 1)

(* faulty variant of KeyGe: the key (r.edge, r.confidence)                 *)
KeyGeEdgeFirst(r1, r2) ==
    \/ r1.edge > r2.edge
    \/ (r1.edge = r2.edge /\ r1.confidence >= r2.confidence)

(* the sort key (r.confidence, r.edge): r1's key >= r2's key               *)
KeyGe(r1, r2) ==
    \/ r1.confidence > r2.confidence
    \/ (r1.confidence = r2.confidence /\ r1.edge >= r2.edge)

(* list.sort(key, reverse=True) is stable: an element goes behind every    *)
(* earlier element whose key is not smaller                                *)
InsertDesc(acc, x) ==
    LET ahead == {k \in 1..Len(acc) : KeyGe(acc[k], x)}
        n == Cardinality(ahead)
    IN  SubSeq(acc, 1, n) \o <<x>> \o SubSeq(acc, n + 1, Len(acc))

RECURSIVE SortRecs(_, _, _)
SortRecs(recs, k, acc) ==
    IF k > Len(recs) THEN acc ELSE SortRecs(recs, k + 1, InsertDesc(acc, recs[k]))

(* recommendations.sort(...); return recommendations[:5]                   *)
MAX_RECS == 5

(* faulty variant of SortAndCut: the list is cut before it is sorted       *)
CutThenSort(recs) ==
    SortRecs(SubSeq(recs, 1, Min(MAX_RECS, Len(recs))), 1, <<>>)

(* `recommendations.sort(key=..., reverse=True); return recommendations[:5]` *)
SortAndCut(recs) ==
    LET sorted == SortRecs(recs, 1, <<>>)
    IN  SubSeq(sorted, 1, Min(MAX_RECS, Len(sorted)))

(* faulty variant of TooLate: minute 85 is skipped too                     *)
TooLateInclusive(game) == game.minute >= 85

(* `if game.minute > 85: return []`                                        *)
TooLate(game) == game.minute > 85

(* analyze_game up to its only suspension point: the values it holds in    *)
(* local variables when it reaches `await self.ollama.analyze_game(...)`   *)
(* (or skips it).  status "raised": an exception left the coroutine.       *)
AnalyzeLocals(ratings, ollama_is_available, game) ==
    IF TooLate(game)
    THEN [status |-> "returned", awaits |-> FALSE, evaluated |-> FALSE,
          probs |-> _final_probabilities(0, 0), predicted_score |-> <<0, 0>>]
    ELSE IF get_expected_goals_raises(ratings, game.home_team, game.away_team)
    THEN [status |-> "raised", awaits |-> FALSE, evaluated |-> FALSE,
          probs |-> _final_probabilities(0, 0), predicted_score |-> <<0, 0>>]
    ELSE
      LET probs == get_all_probabilities(ratings, game.home_team, game.away_team,
                                         game.home_score, game.away_score, game.minute)
          predicted == get_most_likely_final_score(ratings, game.home_team,
                           game.away_team, game.home_score, game.away_score, game.minute)
      IN  [status |-> "returned",
           awaits |-> potential_bet_found(markets_to_check(game, probs))
                      /\ ollama_is_available,
           evaluated |-> TRUE,
           probs |-> probs, predicted_score |-> predicted]

(* analyze_game from the suspension point to its return statement          *)
AnalyzeFinish(game, locals) ==
    IF ~locals.evaluated THEN <<>>
    ELSE SortAndCut(EvaluateMarkets(game, locals.probs, locals.predicted_score,
                                    markets_to_check(game, locals.probs), 1))

RECURSIVE CollectUntilError(_, _, _, _)
(* faulty variant of CollectResults: the first failed analysis ends the    *)
(* loop, as it would without return_exceptions                             *)
CollectUntilError(gs, ts, k, acc) ==
    IF k > Len(gs) THEN acc
    ELSE IF ts[k].pc = "raised" THEN acc
    ELSE IF ts[k].recs /= <<>>
    THEN CollectUntilError(gs, ts, k + 1,
             [id \in DOMAIN acc \cup {gs[k].game_id} |->
                 IF id = gs[k].game_id THEN ts[k].recs ELSE acc[id]])
    ELSE CollectUntilError(gs, ts, k + 1, acc)

RECURSIVE CollectResults(_, _, _, _)
(* the loop `for game, recs in zip(games, all_recs)` of batch_analyze      *)
CollectResults(gs, ts, k, acc) ==
    IF k > Len(gs) THEN acc
    ELSE IF ts[k].pc = "raised" THEN CollectResults(gs, ts, k + 1, acc)
    ELSE IF ts[k].recs /= <<>>
    THEN CollectResults(gs, ts, k + 1,
             [id \in DOMAIN acc \cup {gs[k].game_id} |->
                 IF id = gs[k].game_id THEN ts[k].recs ELSE acc[id]])
    ELSE CollectResults(gs, ts, k + 1, acc)

----------------------------------------------------------------------------
(* Inputs and bounds                                                       *)

(* scores range over 0..MaxScore                                           *)
MaxScore == 2

(* batch_analyze is called with 1..MaxGames snapshots                      *)
MaxGames == 2

Scores == 0..MaxScore

Minutes == {0, 12, 20, 30, 58, 78, 85, 86}

(* odds in hundredths: absent, 1.00, 1.01, 5.00                            *)
OddsValues == {None, 100, 101, 500}

OddsValues2 == {None, 500}

(* ratings as the stats fetcher computes them, and a cached entry that     *)
(* lacks the attack/defense keys                                           *)
RatingA == [attack |-> 1100, defense |-> 1100, games_played |-> 10]

RatingB == [attack |-> 1250, defense |-> 900, games_played |-> 10]

MalformedRating == [games_played |-> 10]

RatingUpdates ==
    { [t \in {"A", "B"} |-> IF t = "A" THEN RatingA ELSE RatingB],
      [t \in {"A"} |-> MalformedRating] }

Game(id, home, away, hs, as, minute, v1, v2) ==
    [game_id |-> id, home_team |-> home, away_team |-> away,
     home_score |-> hs, away_score |-> as, minute |-> minute,
     league |-> "L", site |-> "1xbet",
     odds_home_win |-> v1, odds_draw |-> v2, odds_away_win |-> v2,
     odds_over_25 |-> v1, odds_under_25 |-> v2,
     odds_btts_yes |-> v2, odds_btts_no |-> v1]

(* a goalless match of unrated teams at minute 58 with odds only for the   *)
(* draw, 4.00, and for under 2.5, 1.04                                     *)
StakeProbeGame ==
    [Game("g1", "A", "B", 0, 0, 58, None, None) EXCEPT
        !.odds_draw = 400, !.odds_under_25 = 104]

GameInputs ==
    { Game("g1", "A", "B", hs, as, m, v1, v2) :
        hs \in Scores, as \in Scores, m \in Minutes,
        v1 \in OddsValues, v2 \in OddsValues2 }
    \cup {StakeProbeGame}

BatchInputs ==
    { Game("g1", "A", "B", 1, 0, 30, 500, 500),
      Game("g2", "X", "B", 0, 0, 30, 500, 500),
      Game("g1", "X", "B", MaxScore, 0, 58, 150, 500),
      Game("g3", "X", "B", 0, 0, 86, 500, 500) }

RECURSIVE SeqsUpTo(_, _)
(* the sequences over S of length 1..n                                     *)
SeqsUpTo(S, n) ==
    IF n = 0 THEN {}
    ELSE LET shorter == SeqsUpTo(S, n - 1)
         IN  {<<x>> : x \in S} \cup shorter
             \cup {Append(q, x) : q \in {r \in shorter : Len(r) = n - 1}, x \in S}

----------------------------------------------------------------------------
(* State                                                                   *)

VARIABLES
    team_ratings,      (* PoissonModel.team_ratings: team name -> rating   *)
    ollama_available,  (* OllamaAnalyzer._available, set by the constructor *)
    call,              (* the entry point in progress, or "none"           *)
    games,             (* the snapshots passed to the entry point          *)
    tasks,             (* one analyze_game coroutine per snapshot          *)
    outcome,           (* what the caller got: "none", "returned", "raised" *)
    recommendations,   (* the list analyze_game returned to its caller     *)
    results,           (* the mapping batch_analyze returned               *)
    scorer,            (* a direct call of a scoring function: its         *)
                       (* arguments and, once applied, its return value    *)
    bettor,            (* the AutoBettor and its process_recommendations   *)
                       (* coroutine                                        *)
    goal,              (* a direct call of a PoissonModel method: its      *)
                       (* arguments and, once applied, what it returned    *)
    agent              (* BetMasterAgent: its flags, the stats fetcher's   *)
                       (* cache, the AI analyzer's result cache, the       *)
                       (* dashboard's recommendations, and where its       *)
                       (* analysis loop stands                             *)

vars == <<team_ratings, ollama_available, call, games, tasks, outcome,
          recommendations, results, scorer, bettor, goal, agent>>

EmptyMap == [id \in {} |-> <<>>]

NoLocals ==
    [status |-> "returned", awaits |-> FALSE, evaluated |-> FALSE,
     probs |-> _final_probabilities(0, 0), predicted_score |-> <<0, 0>>]

(* no scoring function is being called directly                            *)
NoScorer ==
    [fn |-> "none", model_prob |-> 0, odds |-> 100,
     implied_prob |-> [n |-> 0, d |-> 1], edge |-> [n |-> 0, d |-> 1],
     home_score |-> 0, away_score |-> 0, minute |-> 0, bet_type |-> "home",
     xg |-> <<0, 0>>, result |-> [n |-> 0, d |-> 1]]

PendingTask == [pc |-> "pending", locals |-> NoLocals, recs |-> <<>>]

(* no PoissonModel method is being called directly                        *)
(* history and updates are used by the sequences of calls on one model:    *)
(* what each call so far was given and returned, and the number of         *)
(* update_team_ratings calls so far                                        *)
NoGoal ==
    [fn |-> "none", home_team |-> "A", away_team |-> "B", home_score |-> 0,
     away_score |-> 0, minute |-> 0, raised |-> FALSE, result |-> <<>>,
     history |-> <<>>, updates |-> 0]

(* BetMasterAgent before start(): nothing fetched, cached or shown, the    *)
(* analysis loop not running                                               *)
NoAgent ==
    [_running |-> FALSE, _force_refresh |-> FALSE, alive |-> FALSE,
     phase |-> "off", stats_cache |-> EmptyMap, leagues |-> {},
     ollama_cache |-> {}, recommendations |-> EmptyMap,
     refresh_pending |-> FALSE]

(* AutoBettor.__init__: disabled, nothing placed; no process_recommendations *)
(* call in progress (pos = 0).  During a call pos is the position of the   *)
(* recommendation the loops are at and pc where the coroutine stands: at   *)
(* the head of the loop, or suspended at the balance query, at             *)
(* scrapers.place_bet or at asyncio.sleep                                  *)
NoBettor ==
    [enabled |-> FALSE, placed_today |-> {}, recs |-> <<>>, pos |-> 0,
     pc |-> "loop", considered |-> <<>>, attempted |-> <<>>, placed |-> 0,
     calls |-> <<>>]

Init ==
    /\ team_ratings = EmptyMap
    /\ ollama_available \in BOOLEAN
    /\ call = "none"
    /\ games = <<>>
    /\ tasks = <<>>
    /\ outcome = "none"
    /\ recommendations = <<>>
    /\ results = EmptyMap
    /\ scorer = NoScorer
    /\ bettor = NoBettor
    /\ goal = NoGoal
    /\ agent = NoAgent

(* dict.update with the fields of an entry merged one by one: a team that  *)
(* is in both keeps the defense it had and takes the rest from `ratings`   *)
MergedFieldwise(store, ratings) ==
    [t \in DOMAIN ratings \cup DOMAIN store |->
        IF t \notin DOMAIN ratings THEN store[t]
        ELSE IF t \in DOMAIN store /\ "defense" \in DOMAIN store[t]
                /\ "defense" \in DOMAIN ratings[t]
        THEN [ratings[t] EXCEPT !.defense = store[t].defense]
        ELSE ratings[t]]

(* store.update(ratings): every entry of `ratings` replaces or extends the *)
(* entries of `store`, each entry as a whole                               *)
MergedRatings(store, ratings) ==
    [t \in DOMAIN ratings \cup DOMAIN store |->
        IF t \in DOMAIN ratings THEN ratings[t] ELSE store[t]]

(* PoissonModel.update_team_ratings: dict.update.  main.py calls it from   *)
(* the analysis cycle, before batch_analyze is awaited.                    *)
update_team_ratings(ratings) ==
    /\ call = "none"
    /\ team_ratings' = MergedRatings(team_ratings, ratings)
    /\ UNCHANGED <<ollama_available, call, games, tasks, outcome,
                   recommendations, results, scorer,
                   bettor, goal, agent>>

(* OllamaAnalyzer._make_cache_key: the fields the key is made of          *)
CacheKey(game) ==
    <<game.home_team, game.away_team, game.home_score, game.away_score,
      game.minute, game.odds_home_win, game.odds_away_win>>

(* the keys of the snapshots gs                                            *)
CacheKeys(gs) == {CacheKey(gs[k]) : k \in 1..Len(gs)}

(* a caller awaits engine.analyze_game(game).  agent.ollama_cache holds    *)
(* the keys of OllamaAnalyzer._cache whose entry is younger than           *)
(* _cache_ttl; the calls followed are those made when every such entry is  *)
(* of a snapshot of the call                                               *)
CallAnalyzeGame(game) ==
    /\ call = "none"
    /\ agent.ollama_cache \subseteq {CacheKey(game)}
    /\ call' = "analyze_game"
    /\ games' = <<game>>
    /\ tasks' = <<PendingTask>>
    /\ UNCHANGED <<team_ratings, ollama_available, outcome, recommendations, results, scorer,
                   bettor, goal, agent>>

(* a caller awaits engine.batch_analyze(games): one coroutine per snapshot *)
(* is handed to asyncio.gather                                             *)
CallBatchAnalyze(gs) ==
    /\ call = "none"
    /\ agent.ollama_cache \subseteq CacheKeys(gs)
    /\ call' = "batch_analyze"
    /\ games' = gs
    /\ tasks' = [k \in 1..Len(gs) |-> PendingTask]
    /\ UNCHANGED <<team_ratings, ollama_available, outcome, recommendations, results, scorer,
                   bettor, goal, agent>>

(* the coroutine of `game` after its first run: it raised, it is suspended *)
(* in ollama.analyze_game at `await asyncio.to_thread(...)`, or it         *)
(* returned.  It suspends only when it asks the AI analyzer and the        *)
(* analyzer has no fresh entry for the snapshot (cached is FALSE): with a  *)
(* fresh entry ollama.analyze_game returns without suspending, and so does *)
(* the coroutine.                                                          *)
TaskAfterStart(game, locals, cached) ==
    IF locals.status = "raised"
    THEN [pc |-> "raised", locals |-> NoLocals, recs |-> <<>>]
    ELSE IF locals.awaits /\ ~cached
    THEN [pc |-> "awaiting_ai", locals |-> locals, recs |-> <<>>]
    ELSE [pc |-> "returned", locals |-> locals, recs |-> AnalyzeFinish(game, locals)]

(* The event loop starts the coroutines in the order gather received them. *)
(* Coroutine k runs analyze_game to the await of the AI query, or to its   *)
(* end when it does not suspend.                                           *)
TaskStart(k) ==
    /\ k \in 1..Len(tasks)
    /\ tasks[k].pc = "pending"
    /\ \A j \in 1..(k - 1) : tasks[j].pc /= "pending"
    /\ tasks' = [tasks EXCEPT ![k] =
                   TaskAfterStart(games[k],
                       AnalyzeLocals(team_ratings, ollama_available, games[k]),
                       CacheKey(games[k]) \in agent.ollama_cache)]
    /\ team_ratings' = IF TooLate(games[k]) THEN team_ratings
                       ELSE StoreAfterExpectedGoals(team_ratings, games[k].home_team,
                                                    games[k].away_team)
    /\ UNCHANGED <<ollama_available, call, games, outcome,
                   recommendations, results, scorer,
                   bettor, goal, agent>>

(* the coroutine of `game` once it is past the await: it has run the      *)
(* market loop, sorted and returned                                        *)
TaskAfterResume(game, locals) ==
    [pc |-> "returned", locals |-> locals, recs |-> AnalyzeFinish(game, locals)]

(* The AI query of coroutine k is over.  The thread's callback is queued   *)
(* behind the first runs of the coroutines gather created, so every        *)
(* coroutine has started.  ollama.analyze_game stores what the query gave  *)
(* (also the answer parsed from the empty text of a failed request) under  *)
(* the snapshot's key; only when the await itself raised does it return    *)
(* without storing.  The coroutine runs the market loop, sorts and         *)
(* returns.                                                                *)
TaskResume(k) ==
    /\ k \in 1..Len(tasks)
    /\ tasks[k].pc = "awaiting_ai"
    /\ \A j \in 1..Len(tasks) : tasks[j].pc /= "pending"
    /\ tasks' = [tasks EXCEPT ![k] = TaskAfterResume(games[k], tasks[k].locals)]
    /\ \E stored \in BOOLEAN :
          agent' = [agent EXCEPT !.ollama_cache =
                       IF stored THEN @ \cup {CacheKey(games[k])} ELSE @]
    /\ UNCHANGED <<team_ratings, ollama_available, call, games, outcome,
                   recommendations, results, scorer, bettor, goal>>

(* time passes: the entry of `key` is now older than _cache_ttl, and       *)
(* ollama.analyze_game will query again                                    *)
CacheEntryExpires(key) ==
    /\ key \in agent.ollama_cache
    /\ agent' = [agent EXCEPT !.ollama_cache = @ \ {key}]
    /\ UNCHANGED <<team_ratings, ollama_available, call, games, tasks, outcome,
                   recommendations, results, scorer, bettor, goal>>

(* OllamaAnalyzer.analyze_game(game_state) called for a snapshot by        *)
(* another caller than the engine, alone or as one of the calls that       *)
(* OllamaAnalyzer.batch_analyze gathers: its query is over and the result  *)
(* is stored.  The call changes nothing before that.  Followed between     *)
(* two calls of the engine, for the snapshots of BatchInputs.              *)
OllamaAnalyzeGame(game) ==
    /\ call = "none"
    /\ ollama_available
    /\ Cardinality(agent.ollama_cache) < MaxGames
    /\ CacheKey(game) \notin agent.ollama_cache
    /\ agent' = [agent EXCEPT !.ollama_cache = @ \cup {CacheKey(game)}]
    /\ UNCHANGED <<team_ratings, ollama_available, call, games, tasks, outcome,
                   recommendations, results, scorer, bettor, goal>>

(* OllamaAnalyzer.clear_cache                                              *)
clear_cache ==
    /\ agent.ollama_cache /= {}
    /\ agent' = [agent EXCEPT !.ollama_cache = {}]
    /\ UNCHANGED <<team_ratings, ollama_available, call, games, tasks, outcome,
                   recommendations, results, scorer, bettor, goal>>

AllDone == \A k \in 1..Len(tasks) : tasks[k].pc \in {"returned", "raised"}

(* analyze_game hands its result, or its exception, to the caller          *)
ReturnAnalyzeGame ==
    /\ call = "analyze_game"
    /\ outcome = "none"
    /\ AllDone
    /\ outcome' = IF tasks[1].pc = "raised" THEN "raised" ELSE "returned"
    /\ recommendations' = tasks[1].recs
    /\ UNCHANGED <<team_ratings, ollama_available, call, games, tasks, results, scorer,
                   bettor, goal, agent>>

(* gather(return_exceptions=True) completed; batch_analyze builds and      *)
(* returns its mapping                                                     *)
ReturnBatchAnalyze ==
    /\ call = "batch_analyze"
    /\ outcome = "none"
    /\ AllDone
    /\ outcome' = "returned"
    /\ results' = CollectResults(games, tasks, 1, EmptyMap)
    /\ UNCHANGED <<team_ratings, ollama_available, call, games, tasks, recommendations, scorer,
                   bettor, goal, agent>>

(* the caller is done with the result                                      *)
Finish ==
    /\ outcome /= "none"
    /\ call' = "none"
    /\ games' = <<>>
    /\ tasks' = <<>>
    /\ outcome' = "none"
    /\ recommendations' = <<>>
    /\ results' = EmptyMap
    /\ UNCHANGED <<team_ratings, ollama_available, scorer, bettor, goal, agent>>

Next ==
    \/ call = "none" /\ \E r \in RatingUpdates : update_team_ratings(r)
    \/ call = "none" /\ \E g \in GameInputs : CallAnalyzeGame(g)
    \/ call = "none" /\ \E gs \in SeqsUpTo(BatchInputs, MaxGames) : CallBatchAnalyze(gs)
    \/ \E k \in 1..MaxGames : TaskStart(k)
    \/ \E k \in 1..MaxGames : TaskResume(k)
    \/ \E key \in agent.ollama_cache : CacheEntryExpires(key)
    \/ call = "none" /\ \E g \in BatchInputs : OllamaAnalyzeGame(g)
    \/ clear_cache
    \/ ReturnAnalyzeGame
    \/ ReturnBatchAnalyze
    \/ Finish

Spec == Init /\ [][Next]_vars

----------------------------------------------------------------------------
(* The scoring functions called directly, on arguments the market loop     *)
(* of analyze_game need not produce                                        *)

(* probabilities 0, 0.45, 0.7, 1.0                                         *)
ScorerProbs == {0, 4500, 7000, 10000}

(* odds 0.50, 1.00, 1.01, the ends of the bands of the odds score (1.10,   *)
(* 1.30, 5.00, 8.00) and the largest odds the model draws                  *)
ScorerOdds == {50, 100, 101, 110, 130, 500, 800, MaxOddsH}

(* arguments <<model_prob, odds, <<home_score, away_score, xg>>, minute,   *)
(* bet_type>> at which a value lies on a threshold in exact arithmetic and *)
(* the double beside it: a confidence of 49.999999999999986 and of         *)
(* 50.00000000000001, of 59.99999999999999, 69.99999999999999,             *)
(* 74.99999999999999 and 84.99999999999999, a stake of 154.99999999999997  *)
(* before its rounding to tens, and a Kelly numerator b*p - q of           *)
(* 5.6e-17 where b*p = q in exact arithmetic                               *)
ScorerTies ==
    { <<8350, 125, <<0, 0, <<155, 115>>>>, 0, "btts">>,
      <<9200, 110, <<MaxScore + 1, MaxScore, <<155, 115>>>>, 12, "under_25">>,
      <<9750, 110, <<0, MaxScore, <<155, 115>>>>, 0, "home">>,
      <<9450, 125, <<0, 0, <<155, 115>>>>, 0, "under_25">>,
      <<9450, 125, <<0, 0, <<155, 115>>>>, 0, "draw">>,
      <<9450, 125, <<0, MaxScore, <<155, 115>>>>, 15, "over_25">>,
      <<9175, 125, <<0, MaxScore, <<155, 115>>>>, 5, "home">>,
      <<8000, 125, <<0, 0, <<155, 115>>>>, 0, "home">> }

(* the edge analyze_game would pass, and the extremes -1 and +1            *)
ScorerEdges(model_prob, odds) ==
    {Edge(model_prob, odds),
     [n |-> -10000, d |-> 1, f |-> FLit(-1, 1)],
     [n |-> 10000, d |-> 1, f |-> FLit(1, 1)]}

(* minutes in every band of the time score, with the ends of the bands     *)
ScorerMinutes == {0, 12, 15, 58, 75, 80, 81}

ScorerBetTypes == DOMAIN BET_LABELS \cup {"corners"}

(* <<home_score, away_score, <<home_xg, away_xg>>>>                        *)
ScorerStates ==
    { <<0, 0, <<40, 30>>>>, <<0, 0, <<155, 115>>>>, <<1, 0, <<155, 115>>>>,
      <<0, MaxScore, <<155, 115>>>>, <<MaxScore + 1, MaxScore, <<155, 115>>>> }

InitScorer ==
    /\ team_ratings = EmptyMap
    /\ ollama_available = FALSE
    /\ call = "none"
    /\ games = <<>>
    /\ tasks = <<>>
    /\ outcome = "none"
    /\ recommendations = <<>>
    /\ results = EmptyMap
    /\ bettor = NoBettor
    /\ goal = NoGoal
    /\ agent = NoAgent
    /\ \E a \in (ScorerProbs \X ScorerOdds \X ScorerStates \X ScorerMinutes
                    \X ScorerBetTypes) \cup ScorerTies :
          \E e \in ScorerEdges(a[1], a[2]) :
             scorer = [NoScorer EXCEPT !.model_prob = a[1], !.odds = a[2],
                                       !.implied_prob = ImpliedProb(a[2]), !.edge = e,
                                       !.home_score = a[3][1], !.away_score = a[3][2],
                                       !.xg = a[3][3], !.minute = a[4],
                                       !.bet_type = a[5]]

(* engine._kelly_fraction(prob, odds)                                      *)
Call_kelly_fraction ==
    /\ scorer.fn = "none"
    /\ scorer' = [scorer EXCEPT !.fn = "_kelly_fraction",
                                !.result = _kelly_fraction(scorer.model_prob, scorer.odds)]
    /\ UNCHANGED <<team_ratings, ollama_available, call, games, tasks, outcome,
                   recommendations, results, bettor,
                   goal, agent>>

(* the snapshot and the probability dictionary the scorer's arguments      *)
(* stand for                                                               *)
ScorerGame ==
    Game("g1", "A", "B", scorer.home_score, scorer.away_score, scorer.minute,
         scorer.odds, scorer.odds)

ScorerProbsDict ==
    [_final_probabilities(0, 0) EXCEPT !.home_xg = scorer.xg[1],
                                       !.away_xg = scorer.xg[2]]

(* engine._calculate_confidence(model_prob, implied_prob, edge, kelly,     *)
(* game, bet_type, probs)                                                  *)
Call_calculate_confidence ==
    /\ scorer.fn = "none"
    /\ scorer' = [scorer EXCEPT
                    !.fn = "_calculate_confidence",
                    !.result = _calculate_confidence(
                                   scorer.model_prob, scorer.implied_prob, scorer.edge,
                                   _kelly_fraction(scorer.model_prob, scorer.odds),
                                   ScorerGame, scorer.bet_type, ScorerProbsDict)]
    /\ UNCHANGED <<team_ratings, ollama_available, call, games, tasks, outcome,
                   recommendations, results, bettor,
                   goal, agent>>

(* the confidence analyze_game would hand to _recommend_stake for the      *)
(* scorer's arguments                                                      *)
ScorerConfidence ==
    _calculate_confidence(scorer.model_prob, scorer.implied_prob, scorer.edge,
                          _kelly_fraction(scorer.model_prob, scorer.odds),
                          ScorerGame, scorer.bet_type, ScorerProbsDict)

(* engine._recommend_stake(confidence, kelly); the stake is a whole number *)
(* of KES                                                                  *)
Call_recommend_stake ==
    /\ scorer.fn = "none"
    /\ scorer' = [scorer EXCEPT
                    !.fn = "_recommend_stake",
                    !.result = [n |-> _recommend_stake(ScorerConfidence,
                                         _kelly_fraction(scorer.model_prob, scorer.odds)),
                                d |-> 1]]
    /\ UNCHANGED <<team_ratings, ollama_available, call, games, tasks, outcome,
                   recommendations, results, bettor,
                   goal, agent>>

NextScorer ==
    \/ Call_kelly_fraction
    \/ Call_calculate_confidence
    \/ Call_recommend_stake

SpecScorer == InitScorer /\ [][NextScorer]_vars

----------------------------------------------------------------------------
(* The auto-bettor: bettor/auto_bettor.py                                  *)

(* faulty variant of is_auto_bettable: the edge is not looked at           *)
AutoBettableByConfidence(rec) == rec.confidence >= 10 * AUTO_BET_THRESHOLD

(* BetRecommendation.is_auto_bettable, on the fields of the recommendation *)
(* (confidence in tenths of a point, edge in e4 units)                     *)
is_auto_bettable(rec) ==
    rec.confidence >= 10 * AUTO_BET_THRESHOLD /\ rec.edge > 0

(* What the collaborators answer during one consider_bet call:             *)
(* history.is_daily_limit_hit(), get_balance_kes() (a number, or an        *)
(* exception when balance_known is FALSE), and what happens in _place_bet: *)
(* "ok", "failed" (place_bet returned False), "raised" (place_bet raised), *)
(* "record_raised" (place_bet returned True and history.record_bet         *)
(* raised), "callback_raised" (place_bet returned True, the bet was        *)
(* recorded and on_bet_placed raised)                                      *)
BettorEnvs ==
    [limit_hit : BOOLEAN, balance_known : BOOLEAN, balance : {0, 100000},
     place : {"ok", "failed", "raised", "record_raised", "callback_raised"}]

(* dedup_key = f"{rec.game.game_id}_{rec.bet_type}"                        *)
DedupKey(rec) == <<rec.game.game_id, rec.bet_type>>

(* consider_bet from its first line to the balance query: TRUE when it     *)
(* returns False there (disabled, safety checks 1 to 3)                    *)
BlockedBeforeBalance(b, rec, env) ==
    \/ ~b.enabled
    \/ rec.confidence < 10 * AUTO_BET_THRESHOLD
    \/ rec.edge <= 0
    \/ env.limit_hit

(* consider_bet from the answer of the balance query (a number, or an      *)
(* exception that is logged) to the call of _place_bet: TRUE when it       *)
(* returns False there (balance, duplicate, odds range)                    *)
BlockedAfterBalance(b, rec, env) ==
    \/ env.balance_known /\ env.balance < rec.recommended_stake
    \/ DedupKey(rec) \in b.placed_today
    \/ rec.odds < 115 \/ rec.odds > 1500

(* _place_bet from the answer of scrapers.place_bet to its return: the     *)
(* value returned, and whether the key went into _placed_today             *)
_place_bet(place) ==
    [success |-> place = "ok",
     key_added |-> place \in {"ok", "callback_raised"}]

(* process_recommendations is called with at most MaxBettorRecs           *)
(* hand-made recommendations, or with a list the engine returned           *)
MaxBettorRecs == 2

(* a recommendation with the fields the auto-bettor reads                  *)
BettorRec(id, bet_type, odds, confidence, edge, stake) ==
    [game |-> Game(id, "A", "B", 1, 0, 30, odds, odds),
     bet_type |-> bet_type, bet_label |-> BET_LABELS[bet_type],
     model_probability |-> 5000, implied_probability |-> NearestInt(1000000, odds),
     edge |-> edge, odds |-> odds, confidence |-> confidence,
     confidence_label |-> "High", recommended_stake |-> stake,
     kelly_fraction |-> 0, home_xg |-> 155, away_xg |-> 115,
     predicted_score |-> <<1, 0>>, warnings |-> <<>>]

(* confidence 90.0 with edge 0.25; confidence exactly 85.0 with the        *)
(* smallest positive edge, same game and market; confidence 90.0 with edge *)
(* 0 and with a negative edge; confidence 84.9 with edge 0.2; confidence   *)
(* 88.0 at odds 1.10                                                       *)
BettorRecs ==
    { BettorRec("g1", "home", 200, 900, 2500, 500),
      BettorRec("g1", "home", 200, 850, 1, 200),
      BettorRec("g2", "draw", 300, 900, 0, 500),
      BettorRec("g2", "under_25", 300, 900, -100, 500),
      BettorRec("g2", "away", 300, 849, 2000, 200),
      BettorRec("g2", "over_25", 110, 880, 500, 500) }

(* the list analyze_game returns for a home side leading by MaxScore at    *)
(* minute 58, with no ratings loaded                                       *)
BettorEngineGame == Game("g3", "X", "B", MaxScore, 0, 58, 150, 500)

BettorEngineRecs ==
    AnalyzeFinish(BettorEngineGame, AnalyzeLocals(EmptyMap, FALSE, BettorEngineGame))

(* the values of all_recs, as the recommendations of its items in order    *)
BettorInputs == {BettorEngineRecs} \cup SeqsUpTo(BettorRecs, MaxBettorRecs)

engine_vars == <<team_ratings, ollama_available, call, games, tasks, outcome,
                 recommendations, results, scorer, goal, agent>>

InitBettor ==
    /\ team_ratings = EmptyMap
    /\ ollama_available = FALSE
    /\ call = "none"
    /\ games = <<>>
    /\ tasks = <<>>
    /\ outcome = "none"
    /\ recommendations = <<>>
    /\ results = EmptyMap
    /\ scorer = NoScorer
    /\ bettor = NoBettor
    /\ goal = NoGoal
    /\ agent = NoAgent

(* AutoBettor.enable, AutoBettor.disable: the dashboard's toggle           *)
enable ==
    /\ bettor' = [bettor EXCEPT !.enabled = TRUE]
    /\ UNCHANGED engine_vars

disable ==
    /\ bettor' = [bettor EXCEPT !.enabled = FALSE]
    /\ UNCHANGED engine_vars

(* a caller awaits auto_bettor.process_recommendations(all_recs); the      *)
(* method itself does not look at `enabled`, consider_bet does             *)
CallProcessRecommendations(all_recs) ==
    /\ bettor.pos = 0
    /\ bettor' = [bettor EXCEPT !.recs = all_recs, !.pos = 1, !.pc = "loop",
                                !.considered = <<>>, !.attempted = <<>>,
                                !.placed = 0]
    /\ UNCHANGED engine_vars

(* the coroutine at the head of the loop: a recommendation that is not     *)
(* auto-bettable is passed over; for another consider_bet is called and    *)
(* returns False at once or suspends at the balance query                  *)
ProcessStep(env) ==
    /\ bettor.pos \in 1..Len(bettor.recs)
    /\ bettor.pc = "loop"
    /\ LET rec == bettor.recs[bettor.pos]
       IN  bettor' =
             IF ~is_auto_bettable(rec) THEN [bettor EXCEPT !.pos = @ + 1]
             ELSE IF BlockedBeforeBalance(bettor, rec, env)
             THEN [bettor EXCEPT !.pos = @ + 1, !.considered = Append(@, rec)]
             ELSE [bettor EXCEPT !.pc = "balance", !.considered = Append(@, rec)]
    /\ UNCHANGED engine_vars

(* the balance query answers: consider_bet returns False, or goes on to    *)
(* _place_bet and suspends at scrapers.place_bet                           *)
ProcessAfterBalance(env) ==
    /\ bettor.pc = "balance"
    /\ LET rec == bettor.recs[bettor.pos]
       IN  bettor' =
             IF BlockedAfterBalance(bettor, rec, env)
             THEN [bettor EXCEPT !.pos = @ + 1, !.pc = "loop"]
             ELSE [bettor EXCEPT !.pc = "placing", !.attempted = Append(@, rec)]
    /\ UNCHANGED engine_vars

(* scrapers.place_bet answers: _place_bet returns; on True the loop counts *)
(* the bet and suspends at `await asyncio.sleep(2)`                        *)
ProcessAfterPlace(env) ==
    /\ bettor.pc = "placing"
    /\ LET rec == bettor.recs[bettor.pos]
           bet == _place_bet(env.place)
           marked == [bettor EXCEPT !.placed_today =
                          IF bet.key_added THEN @ \cup {DedupKey(rec)} ELSE @]
       IN  bettor' =
             IF bet.success
             THEN [marked EXCEPT !.placed = @ + 1, !.pc = "sleep"]
             ELSE [marked EXCEPT !.pos = @ + 1, !.pc = "loop"]
    /\ UNCHANGED engine_vars

(* the sleep is over: the loop goes to the next recommendation             *)
ProcessAfterSleep ==
    /\ bettor.pc = "sleep"
    /\ bettor' = [bettor EXCEPT !.pos = @ + 1, !.pc = "loop"]
    /\ UNCHANGED engine_vars

(* process_recommendations returns `placed`                                *)
ReturnProcessRecommendations ==
    /\ bettor.pos > Len(bettor.recs)
    /\ bettor' = [bettor EXCEPT !.pos = 0]
    /\ UNCHANGED engine_vars

NextBettor ==
    \/ enable
    \/ disable
    \/ bettor.pos = 0 /\ \E all_recs \in BettorInputs : CallProcessRecommendations(all_recs)
    \/ \E env \in BettorEnvs : ProcessStep(env)
    \/ \E env \in BettorEnvs : ProcessAfterBalance(env)
    \/ \E env \in BettorEnvs : ProcessAfterPlace(env)
    \/ ProcessAfterSleep
    \/ ReturnProcessRecommendations

SpecBettor == InitBettor /\ [][NextBettor]_vars

(* consider_bet as a coroutine.  It runs to `await ...get_balance_kes()`,   *)
(* from there to `await self.scrapers.place_bet(...)` and from there to     *)
(* its return; other coroutines of the event loop, and the toggle, run      *)
(* while it is suspended.  bettor.calls holds the consider_bet calls made   *)
(* so far: the recommendation, the point the coroutine is at, the balance   *)
(* it obtained, whether it issued place_bet and the value of self.enabled   *)
(* at that moment, and the value it returned.                               *)
MaxConsider == 2

ConsiderCall(rec, blocked) ==
    [rec |-> rec, pc |-> IF blocked THEN "done" ELSE "balance",
     balance_known |-> FALSE, balance |-> 0, issued |-> FALSE,
     enabled_at_issue |-> FALSE, success |-> FALSE]

(* consider_bet up to the balance query: safety checks 0 to 3              *)
ConsiderStart(rec, env) ==
    /\ Len(bettor.calls) < MaxConsider
    /\ bettor' = [bettor EXCEPT !.calls = Append(bettor.calls,
                      ConsiderCall(rec, BlockedBeforeBalance(bettor, rec, env)))]
    /\ UNCHANGED engine_vars

(* the balance query answers (a number, or an exception that is logged):   *)
(* safety checks 4 and 5, the odds range, and _place_bet up to the await   *)
(* of scrapers.place_bet                                                   *)
ConsiderAfterBalance(b, c, env) ==
    IF BlockedAfterBalance(b, c.rec, env)
    THEN [c EXCEPT !.pc = "done", !.balance_known = env.balance_known,
                   !.balance = env.balance]
    ELSE [c EXCEPT !.pc = "placing", !.balance_known = env.balance_known,
                   !.balance = env.balance, !.issued = TRUE,
                   !.enabled_at_issue = b.enabled]

ResumeAfterBalance(i, env) ==
    /\ i \in 1..Len(bettor.calls)
    /\ bettor.calls[i].pc = "balance"
    /\ bettor' = [bettor EXCEPT !.calls[i] = ConsiderAfterBalance(bettor, @, env)]
    /\ UNCHANGED engine_vars

(* scrapers.place_bet answers: _place_bet records the bet, adds the key to *)
(* _placed_today when the bet was placed and recorded, calls on_bet_placed *)
(* and returns; an exception on the way makes it return False              *)
ResumeAfterPlace(i, env) ==
    /\ i \in 1..Len(bettor.calls)
    /\ bettor.calls[i].pc = "placing"
    /\ bettor' = [bettor EXCEPT
                    !.calls[i] = [@ EXCEPT !.pc = "done",
                                           !.success = _place_bet(env.place).success],
                    !.placed_today = IF _place_bet(env.place).key_added
                                     THEN @ \cup {DedupKey(bettor.calls[i].rec)}
                                     ELSE @]
    /\ UNCHANGED engine_vars

NextConsider ==
    \/ enable
    \/ disable
    \/ \E rec \in BettorRecs, env \in BettorEnvs : ConsiderStart(rec, env)
    \/ \E i \in 1..MaxConsider, env \in BettorEnvs : ResumeAfterBalance(i, env)
    \/ \E i \in 1..MaxConsider, env \in BettorEnvs : ResumeAfterPlace(i, env)

SpecConsider == InitBettor /\ [][NextConsider]_vars

----------------------------------------------------------------------------
(* The methods of PoissonModel called directly                             *)

(* scores of the direct calls range over 0..MaxGoalScore                   *)
MaxGoalScore == 9

(* a stored name of five words and a requested name made of its first four *)
StoredLongName == "Real Madrid Club de Futbol"

RequestedShortName == "Real Madrid Club de"

(* ratings as _compute_ratings makes them of a team that scored no goal, of *)
(* one that scores and concedes much, and of one that does neither         *)
RatingScoreless == [attack |-> 0, defense |-> 1100, games_played |-> 10]

RatingOpen == [attack |-> 2400, defense |-> 1800, games_played |-> 10]

RatingTight == [attack |-> 300, defense |-> 500, games_played |-> 10]

(* the rating stores: empty, two teams, one team under its long name, one  *)
(* entry without attack and defense, a home side and an away side that     *)
(* never scored, and two teams far from the league average                 *)
GoalStores ==
    { EmptyMap,
      [t \in {"A", "B"} |-> IF t = "A" THEN RatingA ELSE RatingB],
      [t \in {StoredLongName} |-> RatingB],
      [t \in {"A"} |-> MalformedRating],
      [t \in {"A", "B"} |-> IF t = "A" THEN RatingScoreless ELSE RatingB],
      [t \in {"A", "B"} |-> IF t = "A" THEN RatingA ELSE RatingScoreless],
      [t \in {"A", "B"} |-> IF t = "A" THEN RatingOpen ELSE RatingTight] }

GoalHomeTeams == {"A", "X", RequestedShortName}

GoalMinutes == {0, 30, 58, 80, 90, 95}

InitGoal ==
    /\ team_ratings \in GoalStores
    /\ ollama_available = FALSE
    /\ call = "none"
    /\ games = <<>>
    /\ tasks = <<>>
    /\ outcome = "none"
    /\ recommendations = <<>>
    /\ results = EmptyMap
    /\ scorer = NoScorer
    /\ bettor = NoBettor
    /\ agent = NoAgent
    /\ \E h \in GoalHomeTeams, hs \in 0..MaxGoalScore, as \in 0..MaxGoalScore,
          m \in GoalMinutes :
          goal = [NoGoal EXCEPT !.home_team = h, !.home_score = hs,
                                !.away_score = as, !.minute = m]

(* what a direct call leaves in `goal`: the method, whether it raised, and *)
(* the value it returned                                                   *)
GoalCall(fn, value) ==
    IF get_expected_goals_raises(team_ratings, goal.home_team, goal.away_team)
    THEN [goal EXCEPT !.fn = fn, !.raised = TRUE]
    ELSE [goal EXCEPT !.fn = fn, !.result = value]

(* poisson.get_expected_goals(home_team, away_team)                        *)
Call_get_expected_goals ==
    /\ goal.fn = "none"
    /\ goal' = GoalCall("get_expected_goals",
                        get_expected_goals(team_ratings, goal.home_team, goal.away_team))
    /\ UNCHANGED <<team_ratings, ollama_available, call, games, tasks, outcome,
                   recommendations, results, scorer, bettor, agent>>

(* poisson.get_all_probabilities(home_team, away_team, home_score,         *)
(* away_score, minute)                                                     *)
Call_get_all_probabilities ==
    /\ goal.fn = "none"
    /\ goal' = GoalCall("get_all_probabilities",
                        get_all_probabilities(team_ratings, goal.home_team,
                            goal.away_team, goal.home_score, goal.away_score,
                            goal.minute))
    /\ UNCHANGED <<team_ratings, ollama_available, call, games, tasks, outcome,
                   recommendations, results, scorer, bettor, agent>>

(* poisson.adjust_for_live(home_xg, away_xg, home_score, away_score,       *)
(* minute) with the expected goals of the two teams, as the analysis calls *)
(* it                                                                      *)
Call_adjust_for_live ==
    /\ goal.fn = "none"
    /\ ~get_expected_goals_raises(team_ratings, goal.home_team, goal.away_team)
    /\ goal' = GoalCall("adjust_for_live",
                        LET base == get_expected_goals(team_ratings, goal.home_team,
                                                       goal.away_team)
                        IN  adjust_for_live(base.home_xg, base.away_xg,
                                goal.home_score, goal.away_score, goal.minute))
    /\ UNCHANGED <<team_ratings, ollama_available, call, games, tasks, outcome,
                   recommendations, results, scorer, bettor, agent>>

NextGoal ==
    \/ Call_get_expected_goals
    \/ Call_get_all_probabilities
    \/ Call_adjust_for_live

SpecGoal == InitGoal /\ [][NextGoal]_vars

----------------------------------------------------------------------------
(* A sequence of calls on one PoissonModel: get_all_probabilities and      *)
(* get_most_likely_final_score, as the analyses of successive matches make *)
(* them, with update_team_ratings called in between.  goal.history holds   *)
(* one record per call made: the method, its arguments, the number of      *)
(* update_team_ratings calls before it, and what came back.                *)

(* at most MaxCalls calls are made, with at most MaxUpdates rating updates *)
MaxCalls == 3

MaxUpdates == 1

(* (home_team, away_team, home_score, away_score, minute)                  *)
RepeatArguments ==
    { <<"A", "B", 1, 0, 30>>, <<"X", "B", 1, 0, 30>>, <<"B", "A", 0, 2, 78>> }

(* the match get_most_likely_final_score is called for between the calls   *)
(* of get_all_probabilities                                                *)
OtherMatchArguments == { <<"X", "B", 1, 0, 30>> }

InitRepeat ==
    /\ team_ratings \in {EmptyMap, [t \in {"A", "B"} |-> IF t = "A" THEN RatingA ELSE RatingB]}
    /\ ollama_available = FALSE
    /\ call = "none"
    /\ games = <<>>
    /\ tasks = <<>>
    /\ outcome = "none"
    /\ recommendations = <<>>
    /\ results = EmptyMap
    /\ scorer = NoScorer
    /\ bettor = NoBettor
    /\ agent = NoAgent
    /\ goal = NoGoal

(* the record of a call that found the store as `ratings`                  *)
CallRecord(fn, args, ratings, updates, value) ==
    [fn |-> fn, args |-> args, updates |-> updates,
     raised |-> get_expected_goals_raises(ratings, args[1], args[2]),
     result |-> IF get_expected_goals_raises(ratings, args[1], args[2])
                THEN <<>> ELSE value]

(* one more call of poisson.get_all_probabilities                          *)
Repeat_get_all_probabilities(args) ==
    /\ Len(goal.history) < MaxCalls
    /\ goal' = [goal EXCEPT !.history =
                    Append(@, CallRecord("get_all_probabilities", args, team_ratings,
                                         goal.updates,
                                         get_all_probabilities(team_ratings, args[1],
                                             args[2], args[3], args[4], args[5])))]
    /\ team_ratings' = StoreAfterExpectedGoals(team_ratings, args[1], args[2])
    /\ UNCHANGED <<ollama_available, call, games, tasks, outcome,
                   recommendations, results, scorer, bettor, agent>>

(* one more call of poisson.get_most_likely_final_score                    *)
Repeat_get_most_likely_final_score(args) ==
    /\ Len(goal.history) < MaxCalls
    /\ goal' = [goal EXCEPT !.history =
                    Append(@, CallRecord("get_most_likely_final_score", args,
                                         team_ratings, goal.updates,
                                         get_most_likely_final_score(team_ratings,
                                             args[1], args[2], args[3], args[4],
                                             args[5])))]
    /\ team_ratings' = StoreAfterExpectedGoals(team_ratings, args[1], args[2])
    /\ UNCHANGED <<ollama_available, call, games, tasks, outcome,
                   recommendations, results, scorer, bettor, agent>>

(* poisson.update_team_ratings(ratings) between two calls                  *)
Repeat_update_team_ratings(ratings) ==
    /\ goal.updates < MaxUpdates
    /\ team_ratings' = MergedRatings(team_ratings, ratings)
    /\ goal' = [goal EXCEPT !.updates = @ + 1]
    /\ UNCHANGED <<ollama_available, call, games, tasks, outcome,
                   recommendations, results, scorer, bettor, agent>>

NextRepeat ==
    \/ \E args \in RepeatArguments : Repeat_get_all_probabilities(args)
    \/ \E args \in OtherMatchArguments : Repeat_get_most_likely_final_score(args)
    \/ \E ratings \in RatingUpdates : Repeat_update_team_ratings(ratings)

SpecRepeat == InitRepeat /\ [][NextRepeat]_vars

----------------------------------------------------------------------------
(* BetMasterAgent: the analysis loop, the background stats fetch, a forced *)
(* refresh and the shutdown.  start() runs the loop in a daemon thread and *)
(* keeps the main thread in `while self._running: time.sleep(1)`; in the   *)
(* loop thread everything runs on one asyncio event loop, so an action     *)
(* below is the code between two awaits.                                   *)

(* ratings newer than RatingA and RatingB                                  *)
FreshRatingA == [attack |-> 900, defense |-> 1300, games_played |-> 11]

FreshRatingB == [attack |-> 1400, defense |-> 700, games_played |-> 11]

(* what _load_cache finds on disk: nothing, or the ratings of an earlier   *)
(* run                                                                     *)
DiskCaches ==
    { EmptyMap,
      [t \in {"A", "B"} |-> IF t = "A" THEN RatingA ELSE RatingB] }

(* the ratings _compute_ratings derives from the standings of each league  *)
(* that fetch_all_leagues asks for                                         *)
LeagueRatings ==
    [l \in {"PL", "PD"} |->
        IF l = "PL" THEN [t \in {"A"} |-> FreshRatingA]
        ELSE [t \in {"B"} |-> FreshRatingB]]

(* what a scrape can return: nothing, or two matches in play               *)
CycleBatches ==
    { <<>>,
      << Game("g1", "A", "B", 1, 0, 58, 500, 500),
         Game("g2", "B", "A", 0, 0, 30, 500, 500) >> }

(* start() has set _running and started the loop thread, _async_main has   *)
(* created the stats task and stands at `while self._running`; the         *)
(* analyzer's constructor has found Ollama, so that analyses suspend       *)
InitCycle ==
    /\ team_ratings = EmptyMap
    /\ ollama_available = TRUE
    /\ call = "none"
    /\ games = <<>>
    /\ tasks = <<>>
    /\ outcome = "none"
    /\ recommendations = <<>>
    /\ results = EmptyMap
    /\ scorer = NoScorer
    /\ bettor = NoBettor
    /\ goal = NoGoal
    /\ \E disk \in DiskCaches :
          agent = [NoAgent EXCEPT !._running = TRUE, !.alive = TRUE,
                                  !.phase = "cycle", !.stats_cache = disk,
                                  !.leagues = DOMAIN LeagueRatings]

(* the main loop after a cycle: `self._force_refresh = False`, then the    *)
(* wait, which is left at once when _running is off                        *)
AfterCycle(a) ==
    [a EXCEPT !._force_refresh = FALSE,
              !.phase = IF a._running THEN "wait" ELSE "cleanup"]

(* fetch_league_teams(league) gets its response (status 200): the ratings  *)
(* computed from it go into the stats cache.  A request that fails leaves  *)
(* the cache as it is, like one that has not been answered yet.            *)
fetch_league_teams(league) ==
    /\ agent.alive
    /\ league \in agent.leagues
    /\ agent' = [agent EXCEPT
                   !.leagues = @ \ {league},
                   !.stats_cache = MergedRatings(@, LeagueRatings[league])]
    /\ UNCHANGED <<team_ratings, ollama_available, call, games, tasks, outcome,
                   recommendations, results, scorer, bettor, goal>>

(* _run_analysis_cycle from the scrape to `await batch_analyze(games)`:    *)
(* without games it returns; otherwise the stats cache, when not empty,    *)
(* goes into the rating store, and gather gets one coroutine per snapshot  *)
RunAnalysisCycle(gs) ==
    /\ agent.alive
    /\ agent.phase = "cycle"
    /\ IF gs = <<>>
       THEN /\ agent' = AfterCycle(agent)
            /\ UNCHANGED <<team_ratings, call, games, tasks, outcome, results>>
       ELSE /\ team_ratings' = IF agent.stats_cache /= EmptyMap
                               THEN MergedRatings(team_ratings, agent.stats_cache)
                               ELSE team_ratings
            /\ call' = "batch_analyze"
            /\ games' = gs
            /\ tasks' = [k \in 1..Len(gs) |-> PendingTask]
            /\ outcome' = "none"
            /\ results' = EmptyMap
            /\ agent' = [agent EXCEPT !.phase = "batch"]
    /\ UNCHANGED <<ollama_available, recommendations, scorer, bettor, goal>>

(* a coroutine of the batch starts: it runs to the await of its AI query,  *)
(* or to its end when the AI cache has a fresh entry for its snapshot      *)
CycleTaskStart(k) ==
    /\ agent.alive
    /\ agent.phase = "batch"
    /\ TaskStart(k)

(* the AI query of coroutine k is over, and the coroutine goes on          *)
CycleTaskResume(k) ==
    /\ agent.alive
    /\ agent.phase = "batch"
    /\ TaskResume(k)

(* an entry of the AI cache gets older than _cache_ttl                     *)
CycleCacheEntryExpires(key) ==
    /\ agent.alive
    /\ CacheEntryExpires(key)

(* gather completed: batch_analyze returns its mapping and the cycle hands *)
(* it to the dashboard (update_recommendations).  The next statements are  *)
(* synchronous; `self.scraper_manager.get_scraper_statuses()` raises       *)
(* AttributeError (ScraperManager has no such method), so the rest of the  *)
(* cycle, the auto-betting step included, does not run: the main loop      *)
(* catches the exception, reports it as the status and starts to wait      *)
FinishAnalysisCycle ==
    /\ agent.alive
    /\ agent.phase = "batch"
    /\ AllDone
    /\ call' = "none"
    /\ outcome' = "returned"
    /\ results' = CollectResults(games, tasks, 1, EmptyMap)
    /\ agent' = AfterCycle([agent EXCEPT !.recommendations =
                                CollectResults(games, tasks, 1, EmptyMap)])
    /\ UNCHANGED <<team_ratings, ollama_available, games, tasks, recommendations,
                   scorer, bettor, goal>>

(* the wait ends: _running is off, a refresh was forced, or                *)
(* REFRESH_INTERVAL seconds have passed                                    *)
EndWait ==
    /\ agent.alive
    /\ agent.phase = "wait"
    /\ agent' = [agent EXCEPT !.phase = IF agent._running THEN "cycle" ELSE "cleanup",
                              !.refresh_pending = FALSE]
    /\ UNCHANGED <<team_ratings, ollama_available, call, games, tasks, outcome,
                   recommendations, results, scorer, bettor, goal>>

(* the main loop is over: _async_main awaits browser_agent.disconnect(),   *)
(* live_scraper.close() and scraper_manager.stop() in turn, and returns    *)
(* when the third has completed; the other coroutines run in between       *)
CleanupPhases ==
    [p \in {"cleanup", "cleanup_close", "cleanup_stop"} |->
        IF p = "cleanup" THEN "cleanup_close"
        ELSE IF p = "cleanup_close" THEN "cleanup_stop" ELSE "stopped"]

Cleanup ==
    /\ agent.alive
    /\ agent.phase \in DOMAIN CleanupPhases
    /\ agent' = [agent EXCEPT !.phase = CleanupPhases[agent.phase]]
    /\ UNCHANGED <<team_ratings, ollama_available, call, games, tasks, outcome,
                   recommendations, results, scorer, bettor, goal>>

(* _handle_auto_bet_toggle(enabled), the dashboard's callback              *)
_handle_auto_bet_toggle(enabled) ==
    /\ agent.alive
    /\ bettor' = [bettor EXCEPT !.enabled = enabled]
    /\ UNCHANGED engine_vars

(* _trigger_refresh                                                        *)
TriggerRefresh ==
    /\ agent.alive
    (* refresh_pending records that a refresh was requested and no cycle    *)
    (* has started since                                                    *)
    /\ agent' = [agent EXCEPT !._force_refresh = TRUE, !.refresh_pending = TRUE]
    /\ UNCHANGED <<team_ratings, ollama_available, call, games, tasks, outcome,
                   recommendations, results, scorer, bettor, goal>>

(* KeyboardInterrupt in the main thread: start() sets _running to False    *)
KeyboardInterrupt ==
    /\ agent.alive
    /\ agent._running
    /\ agent' = [agent EXCEPT !._running = FALSE]
    /\ UNCHANGED <<team_ratings, ollama_available, call, games, tasks, outcome,
                   recommendations, results, scorer, bettor, goal>>

(* start() returns and the program ends: the loop thread is a daemon       *)
(* thread, so it stops wherever it is                                      *)
ProcessExit ==
    /\ agent.alive
    /\ ~agent._running
    /\ agent' = [agent EXCEPT !.alive = FALSE]
    /\ UNCHANGED <<team_ratings, ollama_available, call, games, tasks, outcome,
                   recommendations, results, scorer, bettor, goal>>

(* the steps of the event loop                                             *)
LoopStep ==
    \/ \E l \in DOMAIN LeagueRatings : fetch_league_teams(l)
    \/ agent.phase = "cycle" /\ \E gs \in CycleBatches : RunAnalysisCycle(gs)
    \/ \E k \in 1..MaxGames : CycleTaskStart(k)
    \/ \E k \in 1..MaxGames : CycleTaskResume(k)
    \/ \E key \in agent.ollama_cache : CycleCacheEntryExpires(key)
    \/ FinishAnalysisCycle
    \/ EndWait
    \/ Cleanup

NextCycle ==
    \/ LoopStep
    \/ TriggerRefresh
    \/ \E enabled \in BOOLEAN : _handle_auto_bet_toggle(enabled)
    \/ KeyboardInterrupt
    \/ ProcessExit

SpecCycle == InitCycle /\ [][NextCycle]_vars

----------------------------------------------------------------------------
(* Merging the sites' snapshots: scraper/scraper_manager.py                *)

(* ScraperManager._make_key: each name is lowered, stripped and loses      *)
(* " fc", "fc " and "."; the names the snapshots below carry               *)
_make_key(home, away) ==
    LET normalize == [name \in {"Arsenal FC", "arsenal", "Chelsea"} |->
                        IF name = "Chelsea" THEN "chelsea" ELSE "arsenal"]
    IN  <<normalize[home], normalize[away]>>

(* `x or y` on two odds values: None and 0 are falsy                       *)
OddsOr(x, y) == IF x /= None /\ x /= 0 THEN x ELSE y

(* ScraperManager._merge_games(a, b): a is updated in place and returned   *)
_merge_games(a, b) ==
    LET home_win == OddsOr(a.odds_home_win, b.odds_home_win)
        over_25 == OddsOr(a.odds_over_25, b.odds_over_25)
        truthy(x) == x /= None /\ x /= 0
    IN  [f \in DOMAIN a \cup {"also_on"} |->
           CASE f = "odds_home_win" ->
                  IF truthy(home_win) /\ truthy(b.odds_home_win)
                  THEN Max(home_win, b.odds_home_win) ELSE home_win
             [] f = "odds_over_25" ->
                  IF truthy(over_25) /\ truthy(b.odds_over_25)
                  THEN Max(over_25, b.odds_over_25) ELSE over_25
             [] f \in {"odds_draw", "odds_away_win", "odds_under_25",
                       "odds_btts_yes", "odds_btts_no"} -> OddsOr(a[f], b[f])
             [] f = "also_on" -> b.site
             [] OTHER -> a[f]]

(* ScraperManager._deduplicate(games): seen holds the values of the dict   *)
(* in insertion order                                                      *)
RECURSIVE _deduplicate(_, _)
_deduplicate(game_list, seen) ==
    IF game_list = <<>> THEN seen
    ELSE LET game == Head(game_list)
             key == _make_key(game.home_team, game.away_team)
             at == { i \in 1..Len(seen) :
                       _make_key(seen[i].home_team, seen[i].away_team) = key }
         IN  IF at = {} THEN _deduplicate(Tail(game_list), Append(seen, game))
             ELSE LET i == CHOOSE i \in at : TRUE
                  IN  _deduplicate(Tail(game_list),
                          [seen EXCEPT ![i] = _merge_games(seen[i], game)])

(* at most MaxMerge snapshots are merged in one call                       *)
MaxMerge == 2

(* the same match under two spellings from two sites and the reverse       *)
(* fixture, each with the odds absent, 1.80 or 2.10                        *)
MergeSnapshots ==
    { [Game("g", home, away, 1, 0, 30, v1, v2) EXCEPT
          !.site = IF home = "arsenal" THEN "sportpesa" ELSE "1xbet"] :
        home \in {"Arsenal FC", "arsenal"}, away \in {"Chelsea"},
        v1 \in {None, 180, 210}, v2 \in {None, 180, 210} }
    \cup { Game("g", "Chelsea", "arsenal", 0, 0, 30, v1, 180) :
             v1 \in {None, 210} }

(* the objects of the list passed to _deduplicate after the call:          *)
(* _merge_games has updated in place the first snapshot of each key, the   *)
(* same object the returned list holds                                     *)
AfterDeduplicate(all_games, merged) ==
    [i \in 1..Len(all_games) |->
        LET same == { j \in 1..Len(all_games) :
                        _make_key(all_games[j].home_team, all_games[j].away_team)
                          = _make_key(all_games[i].home_team, all_games[i].away_team) }
        IN  IF \A j \in same : i <= j
            THEN merged[CHOOSE m \in 1..Len(merged) :
                          _make_key(merged[m].home_team, merged[m].away_team)
                            = _make_key(all_games[i].home_team, all_games[i].away_team)]
            ELSE all_games[i]]

(* _deduplicate is called once with the snapshots all_games.  games keeps  *)
(* the snapshots as they were passed; results holds the list the call      *)
(* returned and what the objects of the caller's list hold after it        *)
Call_deduplicate(all_games) ==
    /\ games = <<>>
    /\ games' = all_games
    /\ results' = [merged |-> _deduplicate(all_games, <<>>),
                   all_games |-> AfterDeduplicate(all_games,
                                     _deduplicate(all_games, <<>>))]
    /\ UNCHANGED <<team_ratings, ollama_available, call, tasks, outcome,
                   recommendations, scorer, bettor, goal, agent>>

SpecMerge ==
    Init /\ [][\E all_games \in SeqsUpTo(MergeSnapshots, MaxMerge) :
                  Call_deduplicate(all_games)]_vars

----------------------------------------------------------------------------
(* Properties of analyze_game, stated on every coroutine that has returned *)

(* the markets coroutine k looked at, and the recommendations it returned  *)
MarketsOf(k) == markets_to_check(games[k], tasks[k].locals.probs)

RecsOf(k) == tasks[k].recs

HasRec(k, bet_type) == \E i \in 1..Len(RecsOf(k)) : RecsOf(k)[i].bet_type = bet_type

Ran(k) == tasks[k].pc = "returned" /\ games[k].minute <= 85

(* usable input: odds present and > 1.0, model probability > 0             *)
UsableInput(m) == m.odds /= None /\ m.odds > 100 /\ m.model_prob > 0

(* model_prob - 1/odds >= -0.15, multiplied through by odds                *)
EdgeAtLeastFloor(model_prob, odds) == model_prob * odds - 1000000 >= -1500 * odds

(* the confidence of market m of coroutine k                               *)
ConfidenceOf(k, m) ==
    _calculate_confidence(m.model_prob, ImpliedProb(m.odds), Edge(m.model_prob, m.odds),
                          _kelly_fraction(m.model_prob, m.odds),
                          games[k], m.bet_type, tasks[k].locals.probs)

(* confidence >= MIN_DISPLAY_CONFIDENCE, as the doubles compare             *)
AtLeastDisplay(k, m) == ConfGe(ConfidenceOf(k, m), MIN_DISPLAY_CONFIDENCE)

(* the edge of market m is not below -0.15, as the doubles compare         *)
EdgeAccepted(m) == ~EdgeRejected(Edge(m.model_prob, m.odds))

(* C1: no recommendation returned by analyze_game has an edge (model       *)
(* probability minus 1/odds) below -0.15, and a market whose edge is below *)
(* -0.15 has no recommendation.                                            *)
EdgeFloor ==
    \A k \in 1..Len(tasks) :
        tasks[k].pc = "returned" =>
            /\ \A i \in 1..Len(RecsOf(k)) :
                   /\ EdgeAtLeastFloor(RecsOf(k)[i].model_probability, RecsOf(k)[i].odds)
                   /\ RecsOf(k)[i].edge >= -1500
            /\ \A j \in 1..7 :
                   (UsableInput(MarketsOf(k)[j])
                    /\ ~EdgeAtLeastFloor(MarketsOf(k)[j].model_prob, MarketsOf(k)[j].odds))
                   => ~HasRec(k, MarketsOf(k)[j].bet_type)

(* a market with usable input and a confidence that would be displayed is  *)
(* left out because its edge is below -0.15                                *)
EdgeFloorWitness ==
    \E k \in 1..Len(tasks) :
        /\ Ran(k)
        /\ \E j \in 1..7 :
              /\ UsableInput(MarketsOf(k)[j])
              /\ ~EdgeAtLeastFloor(MarketsOf(k)[j].model_prob, MarketsOf(k)[j].odds)
              /\ AtLeastDisplay(k, MarketsOf(k)[j])
              /\ ~HasRec(k, MarketsOf(k)[j].bet_type)

(* C2: analyze_game emits no recommendation for a market whose odds are    *)
(* absent, whose odds are <= 1.0 or whose model probability is <= 0, and   *)
(* the skip does not affect the other markets: every market with usable    *)
(* input that passes the edge and display filters is recommended, unless   *)
(* the list is full.                                                       *)
OnlyUsableMarkets ==
    \A k \in 1..Len(tasks) :
        tasks[k].pc = "returned" =>
            \A j \in 1..7 :
                /\ ~UsableInput(MarketsOf(k)[j]) => ~HasRec(k, MarketsOf(k)[j].bet_type)
                /\ (/\ Ran(k)
                    /\ UsableInput(MarketsOf(k)[j])
                    /\ EdgeAccepted(MarketsOf(k)[j])
                    /\ AtLeastDisplay(k, MarketsOf(k)[j]))
                   => (HasRec(k, MarketsOf(k)[j].bet_type) \/ Len(RecsOf(k)) = MAX_RECS)

(* one analysis skips a market without usable odds and a market with       *)
(* usable odds but model probability 0, and still recommends another       *)
OnlyUsableMarketsWitness ==
    \E k \in 1..Len(tasks) :
        /\ Ran(k)
        /\ RecsOf(k) /= <<>>
        /\ \E j \in 1..7 : MarketsOf(k)[j].odds = None \/ MarketsOf(k)[j].odds = 100
        /\ \E j \in 1..7 :
              /\ MarketsOf(k)[j].odds /= None
              /\ MarketsOf(k)[j].odds > 100
              /\ MarketsOf(k)[j].model_prob = 0

(* C3: every recommendation returned by analyze_game has confidence >=     *)
(* MIN_DISPLAY_CONFIDENCE, and a candidate below it has no recommendation. *)
DisplayGate ==
    \A k \in 1..Len(tasks) :
        tasks[k].pc = "returned" =>
            /\ \A i \in 1..Len(RecsOf(k)) :
                   RecsOf(k)[i].confidence >= 10 * MIN_DISPLAY_CONFIDENCE
            /\ \A j \in 1..7 :
                   (UsableInput(MarketsOf(k)[j]) /\ ~AtLeastDisplay(k, MarketsOf(k)[j]))
                   => ~HasRec(k, MarketsOf(k)[j].bet_type)

(* a candidate with usable input and an accepted edge is discarded for its *)
(* confidence while another market of the same match is recommended        *)
DisplayGateWitness ==
    \E k \in 1..Len(tasks) :
        /\ Ran(k)
        /\ RecsOf(k) /= <<>>
        /\ \E j \in 1..7 :
              /\ UsableInput(MarketsOf(k)[j])
              /\ EdgeAccepted(MarketsOf(k)[j])
              /\ ~AtLeastDisplay(k, MarketsOf(k)[j])
              /\ ~HasRec(k, MarketsOf(k)[j].bet_type)

(* the sort key of recommendation r is at least the key <<c, e>>           *)
KeyAtLeast(r, c, e) == r.confidence > c \/ (r.confidence = c /\ r.edge >= e)

(* C4: the list returned by analyze_game is ordered by (confidence, edge)  *)
(* descending: of two consecutive recommendations the first has the larger *)
(* confidence, or the same confidence and an edge that is not smaller.     *)
RankedOutput ==
    \A k \in 1..Len(tasks) :
        tasks[k].pc = "returned" =>
            \A i \in 1..(Len(RecsOf(k)) - 1) :
                KeyAtLeast(RecsOf(k)[i], RecsOf(k)[i + 1].confidence, RecsOf(k)[i + 1].edge)

(* two consecutive recommendations on which confidence and edge disagree:  *)
(* the first has the larger confidence and the smaller edge                *)
RankedOutputWitness ==
    \E k \in 1..Len(tasks) :
        /\ Ran(k)
        /\ \E i \in 1..(Len(RecsOf(k)) - 1) :
              /\ RecsOf(k)[i].confidence > RecsOf(k)[i + 1].confidence
              /\ RecsOf(k)[i].edge < RecsOf(k)[i + 1].edge

(* market m of coroutine k passes every filter of the market loop          *)
Survives(k, m) ==
    /\ UsableInput(m)
    /\ EdgeAccepted(m)
    /\ AtLeastDisplay(k, m)

(* C5: analyze_game returns at most 5 recommendations, and a surviving     *)
(* candidate that is left out ranks no higher in (confidence, edge) order  *)
(* than any recommendation that is returned.                               *)
TopFive ==
    \A k \in 1..Len(tasks) :
        tasks[k].pc = "returned" =>
            /\ Len(RecsOf(k)) <= 5
            /\ \A j \in 1..7 :
                   (Ran(k) /\ Survives(k, MarketsOf(k)[j])
                    /\ ~HasRec(k, MarketsOf(k)[j].bet_type))
                   => \A i \in 1..Len(RecsOf(k)) :
                          KeyAtLeast(RecsOf(k)[i],
                                     RoundRat(ConfidenceOf(k, MarketsOf(k)[j]), 1),
                                     RoundRat(Edge(MarketsOf(k)[j].model_prob,
                                                   MarketsOf(k)[j].odds), 4))

(* more than 5 candidates survive: 5 are returned and one is left out      *)
TopFiveWitness ==
    \E k \in 1..Len(tasks) :
        /\ Ran(k)
        /\ Len(RecsOf(k)) = 5
        /\ \E j \in 1..7 :
              Survives(k, MarketsOf(k)[j]) /\ ~HasRec(k, MarketsOf(k)[j].bet_type)

(* C6: a snapshot with minute > 85 makes analyze_game return an empty list *)
(* without evaluating any market, whatever the scores, odds and ratings;   *)
(* a snapshot with minute <= 85 is evaluated.                              *)
LateSkip ==
    \A k \in 1..Len(tasks) :
        tasks[k].pc /= "pending" =>
            /\ games[k].minute > 85 =>
                  (tasks[k].pc = "returned" /\ RecsOf(k) = <<>>
                   /\ ~tasks[k].locals.evaluated)
            /\ (games[k].minute <= 85 /\ tasks[k].pc = "returned") =>
                  tasks[k].locals.evaluated

(* a snapshot past minute 85 with usable odds, whose home team has a       *)
(* rating entry without attack/defense, comes back empty                   *)
LateSkipWitness ==
    \E k \in 1..Len(tasks) :
        /\ games[k].minute > 85
        /\ tasks[k].pc = "returned"
        /\ RecsOf(k) = <<>>
        /\ games[k].odds_home_win = 500
        /\ games[k].home_team \in DOMAIN team_ratings
        /\ "attack" \notin DOMAIN team_ratings[games[k].home_team]

----------------------------------------------------------------------------
(* Properties of the two entry points                                      *)

(* the analysis of snapshot k completed without error and produced at      *)
(* least one recommendation                                                *)
Productive(k) == tasks[k].pc = "returned" /\ RecsOf(k) /= <<>>

(* C7: batch_analyze does not raise when per-match analyses raise; the     *)
(* keys of its mapping are exactly the game_ids of the snapshots whose     *)
(* analysis completed without error with at least one recommendation, and  *)
(* each key maps to the list such an analysis produced (the last one in    *)
(* the input order when several snapshots carry the same game_id).         *)
BatchIsolation ==
    (call = "batch_analyze" /\ outcome /= "none") =>
        /\ outcome = "returned"
        /\ DOMAIN results =
              {games[k].game_id : k \in {j \in 1..Len(games) : Productive(j)}}
        /\ \A id \in DOMAIN results :
              \E k \in 1..Len(games) :
                 /\ games[k].game_id = id
                 /\ Productive(k)
                 /\ results[id] = RecsOf(k)
                 /\ \A j \in (k + 1)..Len(games) :
                        games[j].game_id = id => ~Productive(j)

(* a batch in which the first analysis raised and a later one produced     *)
(* recommendations has returned a mapping with the later match's entry     *)
BatchIsolationWitness ==
    /\ call = "batch_analyze"
    /\ outcome = "returned"
    /\ \E k \in 1..Len(games) :
          /\ tasks[k].pc = "raised"
          /\ \E j \in (k + 1)..Len(games) :
                /\ Productive(j)
                /\ games[j].game_id \in DOMAIN results
                /\ results[games[j].game_id] = RecsOf(j)

(* C8: analyze_game always returns a list and never raises to its caller.  *)
AnalyzeGameNeverRaises ==
    call = "analyze_game" => outcome /= "raised"

----------------------------------------------------------------------------
(* Properties of the scoring functions                                     *)

(* b*p <= q as _kelly_fraction has the two, with b = odds - 1 and          *)
(* q = 1 - p                                                               *)
KellyNoEdge ==
    NumCmp(KellyNumerator(scorer.model_prob, scorer.odds), 0, 1, FLit(0, 1)) <= 0

(* C9: for odds > 1 and a probability in [0, 1] _kelly_fraction returns a  *)
(* value in [0, 0.15], and exactly 0 when b*p <= 1-p with b = odds - 1;    *)
(* for odds <= 1 it returns 0.  The values are the program's doubles: at   *)
(* p = 0.8 and odds 1.25, where b*p = 1-p in exact arithmetic, the         *)
(* program has b*p = 0.2 above 1-p = 0.19999999999999996 and returns       *)
(* 5.6e-17, which rounds to the kelly_fraction field 0.0.                  *)
KellyRange ==
    scorer.fn = "_kelly_fraction" =>
        /\ scorer.result.d > 0
        /\ NumCmp(scorer.result, 0, 1, FLit(0, 1)) >= 0
        /\ NumCmp(scorer.result, 1500, 1, FLit(15, 100)) <= 0
        /\ (scorer.odds > 100 /\ KellyNoEdge)
               => NumCmp(scorer.result, 0, 1, FLit(0, 1)) = 0
        /\ scorer.odds <= 100 => NumCmp(scorer.result, 0, 1, FLit(0, 1)) = 0
        /\ RoundRat(scorer.result, 4) \in 0..1500
        /\ (scorer.odds > 100
            /\ (scorer.odds - 100) * scorer.model_prob
                   <= 100 * (10000 - scorer.model_prob))
               => RoundRat(scorer.result, 4) = 0

(* the cap binds: probability 1.0 at odds 5.00 returns exactly 0.15        *)
KellyRangeWitness ==
    /\ scorer.fn = "_kelly_fraction"
    /\ scorer.model_prob = 10000
    /\ scorer.odds = 500
    /\ scorer.result.n = 1500 * scorer.result.d

(* C10: _calculate_confidence returns a value in [0, 100] for every input, *)
(* and so does its rounding to one decimal, the confidence field of a      *)
(* recommendation.                                                         *)
ConfidenceRange ==
    scorer.fn = "_calculate_confidence" =>
        /\ scorer.result.d > 0
        /\ NumCmp(scorer.result, 0, 1, FLit(0, 1)) >= 0
        /\ NumCmp(scorer.result, 1000, 1, FLit(100, 1)) <= 0
        /\ RoundRat(scorer.result, 1) >= 0
        /\ RoundRat(scorer.result, 1) <= 1000

(* the extreme input: probability 1.0 with the edge at its maximum, where  *)
(* the weighted sum is at its largest, 90 points or more                   *)
ConfidenceRangeWitness ==
    /\ scorer.fn = "_calculate_confidence"
    /\ scorer.model_prob = 10000
    /\ scorer.edge.n = 10000 * scorer.edge.d
    /\ scorer.result.n >= 900 * scorer.result.d

(* the five components of the confidence score as the rule states them,    *)
(* for the arguments of the direct call; the odds are the market's decimal *)
(* odds in hundredths                                                      *)
ModelComponent == Min(100 * 55, Max(0, scorer.model_prob - 4500))

StateComponent == _game_state_score(ScorerGame, scorer.bet_type, ScorerProbsDict)

OddsComponent ==
    IF scorer.odds \in 130..500 THEN 100
    ELSE IF scorer.odds \in 110..129 \/ scorer.odds \in 501..800 THEN 60
    ELSE 20

TimeComponent ==
    IF scorer.minute \in 15..75 THEN 100
    ELSE IF scorer.minute \in 10..14 \/ scorer.minute \in 76..80 THEN 70
    ELSE 30

(* C11: the confidence is 0.35*M + 0.25*E + 0.20*S + 0.10*O + 0.10*T with  *)
(* M = min(100, max(0, (p - 0.45)/0.55) * 100),                            *)
(* E = max(0, min(1, (edge + 0.05)/0.25)) * 100, S the game-state score,   *)
(* O = 100 for odds in [1.3, 5.0], 60 in [1.1, 1.3) or (5.0, 8.0], else 20,*)
(* T = 100 for minute in [15, 75], 70 in [10, 15) or (75, 80], else 30.    *)
(* With the edge n/(10000*d), every term is a multiple of 1/(1100*d) of a  *)
(* point: 0.35*M = 7*d*clamp(p - 4500, 0, 5500), 0.25*E = 11*clamp(n +     *)
(* 500*d, 0, 2500*d), 0.20*S = 220*d*S, 0.10*O = 110*d*O, 0.10*T = 110*d*T.*)
(* The sum is the exact value of the expression; the double the program    *)
(* computes for it from the edge of the market loop, rounded to one        *)
(* decimal, is the tenth nearest to the sum.                               *)
WeightedConfidence ==
    scorer.fn = "_calculate_confidence" =>
        LET d == scorer.edge.d
            e == Max(0, Min(2500 * d, scorer.edge.n + 500 * d))
            sum == 7 * d * ModelComponent + 11 * e + 220 * d * StateComponent
                   + 110 * d * OddsComponent + 110 * d * TimeComponent
            v == PyRound(FEval(scorer.result.f), 1)
        IN  /\ scorer.result.d = 110 * d
            /\ scorer.result.n = sum
            /\ scorer.edge = Edge(scorer.model_prob, scorer.odds)
                   => 2 * Abs(v * scorer.result.d - sum) <= scorer.result.d

(* a pre-match call (minute 0, T = 30) at odds 8.00 (O = 60) with the edge *)
(* the market loop computes                                                *)
WeightedConfidenceWitness ==
    /\ scorer.fn = "_calculate_confidence"
    /\ scorer.minute = 0
    /\ scorer.odds = 800
    /\ scorer.model_prob = 7000
    /\ scorer.edge = Edge(7000, 800)
    /\ TimeComponent = 30
    /\ OddsComponent = 60

(* the floor of the highest tier of the stake table that is <= c, for a    *)
(* confidence c in tenths of a point                                       *)
TierFloor(c) ==
    CHOOSE f \in DOMAIN STAKE_CONFIG :
        /\ ConfGe(c, f)
        /\ \A g \in DOMAIN STAKE_CONFIG : ConfGe(c, g) => g <= f

(* C14: for a confidence c that passes the display gate the recommended    *)
(* stake belongs to the highest tier whose floor is <= c: it is within 5   *)
(* of min_s + (max_s - min_s) * min(1, (c - floor)/15), a multiple of 10,  *)
(* between the tier's minimum and maximum, and at most MAX_BET_KES.        *)
(* The distance is compared in units of 10 KES over the denominator 150*d. *)
StakeFromTier ==
    (scorer.fn = "_recommend_stake" /\ ~BelowDisplay(ScorerConfidence)) =>
        LET c == ScorerConfidence
            floor == TierFloor(c)
            min_s == STAKE_CONFIG[floor][1]
            max_s == STAKE_CONFIG[floor][2]
            fd == 150 * c.d
            fn == Min(fd, c.n - 10 * floor * c.d)
            stake == scorer.result.n
            lhs == ((stake - min_s) \div 10) * fd
            rhs == ((max_s - min_s) \div 10) * fn
        IN  /\ stake % 10 = 0
            /\ min_s % 10 = 0 /\ (max_s - min_s) % 10 = 0
            /\ min_s <= stake /\ stake <= max_s
            /\ stake <= MAX_BET_KES
            /\ 2 * Abs(lhs - rhs) <= fd

(* a confidence of 90 or more whose stake lies strictly inside the top     *)
(* tier, and was rounded to the next multiple of 10                        *)
StakeFromTierWitness ==
    /\ scorer.fn = "_recommend_stake"
    /\ ConfGe(ScorerConfidence, 90)
    /\ scorer.result.n > 300 /\ scorer.result.n < 500
    /\ LET c == ScorerConfidence
       IN  (200 * Min(150 * c.d, c.n - 900 * c.d)) % (1500 * c.d) /= 0

(* C16: the scoring path leaves the Team Rating Store as it was: a step    *)
(* that changes team_ratings is an update_team_ratings call, made while no *)
(* analyze_game or batch_analyze call is in progress, and no step of such  *)
(* a call (start of a coroutine, resumption, return) changes an entry.     *)
StoreOnlyChangedByUpdate ==
    [][team_ratings' /= team_ratings =>
          /\ call = "none" /\ call' = "none"
          /\ \E r \in RatingUpdates :
                 /\ DOMAIN team_ratings' = DOMAIN team_ratings \cup DOMAIN r
                 /\ \A t \in DOMAIN r : team_ratings'[t] = r[t]
                 /\ \A t \in DOMAIN team_ratings \ DOMAIN r :
                        team_ratings'[t] = team_ratings[t]]_vars

(* a batch has returned in which a team that is not in the non-empty store *)
(* was analysed, and the team is still absent                              *)
StoreOnlyChangedByUpdateWitness ==
    /\ team_ratings /= EmptyMap
    /\ \E k \in 1..Len(tasks) :
           /\ Ran(k)
           /\ games[k].home_team = "X"
           /\ "X" \notin DOMAIN team_ratings
           /\ tasks[k].locals.evaluated
           /\ outcome = "returned"

----------------------------------------------------------------------------
(* Properties of the fields of a returned recommendation                   *)

(* the tier of a confidence field, a number of tenths of a point           *)
TierOf(confidence) ==
    IF confidence >= 850 THEN "Very High"
    ELSE IF confidence >= 700 THEN "High"
    ELSE IF confidence >= 550 THEN "Medium"
    ELSE "Low"

(* C12: in every returned recommendation the confidence_label is the tier  *)
(* of the recommendation's confidence field: Very High from 85, High from  *)
(* 70, Medium from 55, Low below.                                          *)
LabelIsTierOfConfidence ==
    \A k \in 1..Len(tasks) :
        tasks[k].pc = "returned" =>
            \A i \in 1..Len(RecsOf(k)) :
                RecsOf(k)[i].confidence_label = TierOf(RecsOf(k)[i].confidence)

----------------------------------------------------------------------------
(* Properties of the auto-bettor                                           *)

(* confidence at or above the auto-bet threshold and a positive edge       *)
Eligible(rec) == rec.confidence >= 850 /\ rec.edge > 0

(* the recommendations process_recommendations has gone through            *)
Handled ==
    SubSeq(bettor.recs, 1, IF bettor.pc = "loop" THEN bettor.pos - 1 ELSE bettor.pos)

(* C13: process_recommendations passes to consider_bet exactly the         *)
(* recommendations with confidence >= AUTO_BET_THRESHOLD and edge > 0, in  *)
(* order, and a bet is only ever placed on such a recommendation.          *)
AutoBetOnlyEligible ==
    /\ \A i \in 1..Len(bettor.considered) : Eligible(bettor.considered[i])
    /\ \A i \in 1..Len(bettor.attempted) : Eligible(bettor.attempted[i])
    /\ bettor.pos > 0 => bettor.considered = SelectSeq(Handled, Eligible)
    /\ bettor.placed <= Len(bettor.attempted)

(* a call that placed a bet and went past a recommendation with confidence *)
(* 90.0 and no positive edge without considering it                        *)
AutoBetOnlyEligibleWitness ==
    /\ bettor.pos > Len(bettor.recs)
    /\ bettor.placed = 1
    /\ \E i \in 1..Len(bettor.recs) :
           /\ bettor.recs[i].confidence = 900
           /\ bettor.recs[i].edge <= 0
    /\ Len(bettor.considered) = 1

----------------------------------------------------------------------------
(* Properties of the Goal Model                                            *)

(* the words of a team name: str.split() on the names the model uses       *)
Words(name) ==
    CASE name = StoredLongName -> {"Real", "Madrid", "Club", "de", "Futbol"}
      [] name = RequestedShortName -> {"Real", "Madrid", "Club", "de"}
      [] OTHER -> {name}

(* Jaccard similarity of the words of a and b exceeds 0.75                 *)
Similar(a, b) ==
    100 * Cardinality(Words(a) \cap Words(b)) > 75 * Cardinality(Words(a) \cup Words(b))

(* the rating the lookup rule gives: the exact key, else a stored team     *)
(* with a similar name, else the neutral rating                            *)
LookupRule(ratings, team) ==
    IF team \in DOMAIN ratings THEN ratings[team]
    ELSE IF \E t \in DOMAIN ratings : Similar(team, t)
    THEN ratings[CHOOSE t \in DOMAIN ratings : Similar(team, t)]
    ELSE [attack |-> 1000, defense |-> 1000]

(* C15: the Goal Model takes the rating of a team from its exact key, else *)
(* from a stored team whose name has a word-set Jaccard similarity above   *)
(* 0.75 with the requested name, else the neutral rating 1.0 / 1.0; the    *)
(* expected goals are those of the ratings so found, and a name that is    *)
(* not stored raises no error.                                             *)
RatingLookupRule ==
    (goal.fn = "get_expected_goals"
     /\ {"attack", "defense"} \subseteq DOMAIN LookupRule(team_ratings, goal.home_team)
     /\ {"attack", "defense"} \subseteq DOMAIN LookupRule(team_ratings, goal.away_team)) =>
        LET home_r == LookupRule(team_ratings, goal.home_team)
            away_r == LookupRule(team_ratings, goal.away_team)
        IN  /\ ~goal.raised
            /\ goal.result.home_xg = XgProduct(155, home_r.attack, away_r.defense)
            /\ goal.result.away_xg = XgProduct(115, away_r.attack, home_r.defense)

----------------------------------------------------------------------------
(* Properties of get_all_probabilities called directly                     *)

(* C19: in every result of get_all_probabilities, from the matrix and from *)
(* the game-over branch alike, under_25 and over_25 sum to 1 and btts_no   *)
(* and btts sum to 1, in the four decimals the result carries.             *)
ComplementPairs ==
    (goal.fn = "get_all_probabilities" /\ ~goal.raised) =>
        /\ goal.result.over_25 + goal.result.under_25 = 10000
        /\ goal.result.btts + goal.result.btts_no = 10000

(* a matrix result in which neither pair is 0 / 1                          *)
ComplementPairsWitness ==
    /\ goal.fn = "get_all_probabilities"
    /\ ~goal.raised
    /\ goal.result.branch = "matrix"
    /\ goal.result.over_25 \in 1..9999
    /\ goal.result.btts \in 1..9999
    /\ goal.result.over_25 # goal.result.over_35

(* a result of the game-over branch, with the match having gone over 2.5   *)
ComplementPairsFinal ==
    /\ goal.fn = "get_all_probabilities"
    /\ ~goal.raised
    /\ goal.result.branch = "final"
    /\ goal.result.over_25 = 9900

(* the matrix get_all_probabilities builds for the call recorded in `goal` *)
GoalXg ==
    LiveXg(team_ratings, goal.home_team, goal.away_team,
           goal.home_score, goal.away_score, goal.minute)

GoalMatrix == score_probability_matrix(GoalXg.home_xg, GoalXg.away_xg)

(* one accumulator of get_all_probabilities after the loop over `matrix`,  *)
(* with the home score of the call recorded in `goal` raised by `more`     *)
AccumulatorAt(matrix, acc, more) ==
    SumCells(matrix, acc, goal.home_score + more, goal.away_score, 0, XZero)

RECURSIVE DiagonalMass(_, _, _)
(* the mass of the cells (i, i - k) of the matrix from row i on: the final *)
(* scores in which the home side adds k goals more than the away side      *)
DiagonalMass(matrix, k, i) ==
    IF i > MAX_GOALS THEN XZero
    ELSE XAdd(IF i - k \in 0..MAX_GOALS THEN matrix[i][i - k] ELSE XZero,
              DiagonalMass(matrix, k, i + 1))

(* the call recorded in `goal` with one more goal for the home side works  *)
(* with the same expected goals                                            *)
SameXg ==
    LET more == LiveXg(team_ratings, goal.home_team, goal.away_team,
                       goal.home_score + 1, goal.away_score, goal.minute)
    IN  /\ more.home_xg.x = GoalXg.home_xg.x
        /\ more.away_xg.x = GoalXg.away_xg.x

(* 0.00011: the resolution of the returned probabilities and a margin for  *)
(* the rounding of the sums                                                *)
VISIBLE_MASS == <<0, 1, 1000, 0, 0>>

(* C20: with the expected goals held fixed, one more goal of lead for the  *)
(* home side strictly increases the accumulated home_win probability and   *)
(* does not increase the accumulated away_win probability, whatever the    *)
(* score difference before.                                                *)
ScoreMonotone ==
    (goal.fn = "get_all_probabilities" /\ ~goal.raised) =>
        LET matrix == GoalMatrix
        IN  /\ XLess(AccumulatorAt(matrix, "home_win_p", 0),
                     AccumulatorAt(matrix, "home_win_p", 1))
            /\ ~XLess(AccumulatorAt(matrix, "away_win_p", 0),
                      AccumulatorAt(matrix, "away_win_p", 1))

(* C20, as the 8x8 matrix and the rounding allow: with the matrix held     *)
(* fixed, one more goal of lead moves into home_win the cells in which the *)
(* home side adds as many goals less than the away side as it led by, and  *)
(* out of away_win the cells in which it adds one goal less than that; so  *)
(* home_win never decreases and away_win never increases, a returned value *)
(* changes when the mass moved is 0.00011 or more, and keeps its value     *)
(* when that mass is 0.  Two calls that work with the same expected goals  *)
(* return values ordered the same way, from the matrix and from the        *)
(* game-over branch alike.                                                 *)
ScoreMonotoneAsRounded ==
    (goal.fn = "get_all_probabilities" /\ ~goal.raised) =>
        LET diff == goal.home_score - goal.away_score
            xg == GoalXg
            matrix == score_probability_matrix(xg.home_xg, xg.away_xg)
            home_now == AccumulatorAt(matrix, "home_win_p", 0)
            home_more == AccumulatorAt(matrix, "home_win_p", 1)
            away_now == AccumulatorAt(matrix, "away_win_p", 0)
            away_more == AccumulatorAt(matrix, "away_win_p", 1)
            to_home == DiagonalMass(matrix, -diff, 0)
            from_away == DiagonalMass(matrix, -diff - 1, 0)
            next == get_all_probabilities(team_ratings, goal.home_team,
                        goal.away_team, goal.home_score + 1, goal.away_score,
                        goal.minute)
        IN  /\ home_more = XAdd(home_now, to_home)
            /\ away_now = XAdd(away_more, from_away)
            /\ Round4(home_more) >= Round4(home_now)
            /\ Round4(away_more) <= Round4(away_now)
            /\ ~XLess(to_home, VISIBLE_MASS) => Round4(home_more) > Round4(home_now)
            /\ ~XLess(from_away, VISIBLE_MASS) => Round4(away_more) < Round4(away_now)
            /\ diff \notin -MAX_GOALS..MAX_GOALS => to_home = XZero
            /\ diff \notin -(MAX_GOALS + 1)..(MAX_GOALS - 1) => from_away = XZero
            /\ (xg.home_xg.x = XZero /\ diff < 0) => to_home = XZero
            /\ (xg.away_xg.x = XZero /\ diff > 0) => to_home = XZero
            /\ (xg.home_xg.x = XZero /\ diff < -1) => from_away = XZero
            /\ (xg.away_xg.x = XZero /\ diff >= 0) => from_away = XZero
            /\ SameXg =>
                  /\ next.branch = goal.result.branch
                  /\ next.home_win >= goal.result.home_win
                  /\ next.away_win <= goal.result.away_win
                  /\ goal.result.branch = "matrix" =>
                        /\ goal.result.home_win = Round4(home_now)
                        /\ goal.result.away_win = Round4(away_now)
                        /\ next.home_win = Round4(home_more)
                        /\ next.away_win = Round4(away_more)

(* a call in the second half, home side two goals up, whose result comes   *)
(* from the matrix: one more home goal leaves the expected goals as they   *)
(* are and the call with it returns a larger home_win and a smaller        *)
(* away_win                                                                *)
ScoreMonotoneAsRoundedWitness ==
    /\ goal.fn = "get_all_probabilities"
    /\ ~goal.raised
    /\ goal.minute = 58
    /\ goal.home_score - goal.away_score = 2
    /\ goal.result.branch = "matrix"
    /\ SameXg
    /\ get_all_probabilities(team_ratings, goal.home_team, goal.away_team,
            goal.home_score + 1, goal.away_score, goal.minute).home_win
          > goal.result.home_win
    /\ get_all_probabilities(team_ratings, goal.home_team, goal.away_team,
            goal.home_score + 1, goal.away_score, goal.minute).away_win
          < goal.result.away_win

(* a home side that never scored, one goal down in the first half: the     *)
(* cells that would change sides need a home goal and have no mass, and    *)
(* home_win stays 0                                                        *)
ScoreMonotoneScorelessWitness ==
    /\ goal.fn = "get_all_probabilities"
    /\ ~goal.raised
    /\ goal.minute = 0
    /\ goal.home_score - goal.away_score = -1
    /\ goal.result.branch = "matrix"
    /\ GoalXg.home_xg.x = XZero
    /\ goal.result.home_win = 0
    /\ AccumulatorAt(GoalMatrix, "home_win_p", 1) = XZero

----------------------------------------------------------------------------
(* Properties of the analysis loop                                         *)

(* every rating a team has had: the default, the one on disk, the one      *)
(* fetched                                                                 *)
RatingVersions(team) ==
    {DefaultRating}
    \cup {d[team] : d \in {x \in DiskCaches : team \in DOMAIN x}}
    \cup {LeagueRatings[l][team] :
              l \in {m \in DOMAIN LeagueRatings : team \in DOMAIN LeagueRatings[m]}}

(* the base expected goals of home against away, each with one rating      *)
XgOfVersions(home_r, away_r) ==
    get_expected_goals([t \in {"home", "away"} |->
                            IF t = "home" THEN home_r ELSE away_r], "home", "away")

(* the teams of the matches a scrape can return                            *)
CycleTeams ==
    UNION { {gs[k].home_team : k \in 1..Len(gs)} \cup {gs[k].away_team : k \in 1..Len(gs)} :
            gs \in CycleBatches }

(* the base expected goals, as get_all_probabilities reports them, of each *)
(* home team against each away team with one whole rating of each          *)
WholeRatingXg ==
    UNION { { <<home, away, Round2(XgOfVersions(home_r, away_r).home_xg),
                Round2(XgOfVersions(home_r, away_r).away_xg)>> :
                  home_r \in RatingVersions(home), away_r \in RatingVersions(away) } :
            home \in CycleTeams, away \in CycleTeams }

(* each analysis that computed probabilities did so from one whole rating  *)
(* of the home team and one whole rating of the away team                  *)
ReadsWholeRatings ==
    \A k \in 1..Len(tasks) :
        tasks[k].locals.evaluated =>
            <<games[k].home_team, games[k].away_team,
              tasks[k].locals.probs.base_home_xg,
              tasks[k].locals.probs.base_away_xg>> \in WholeRatingXg

(* this step is a step of the analysis of snapshot k of the batch          *)
AnalysisStep(k) ==
    /\ agent.phase = "batch"
    /\ agent'.phase = "batch"
    /\ k \in 1..Len(tasks)
    /\ tasks'[k] /= tasks[k]

(* C17: however the stats fetch interleaves with the analyses of a batch,  *)
(* each analysis works with whole ratings, never with the attack of one    *)
(* version and the defense of another, and a step of one analysis changes  *)
(* nothing but that analysis: not the rating store, not the stats cache,   *)
(* not another analysis, not any other state of the agent and its engine.  *)
AnalysesShareNothing ==
    [][ /\ ReadsWholeRatings'
        /\ \A k \in 1..MaxGames :
              AnalysisStep(k) =>
                /\ team_ratings' = team_ratings
                /\ \A j \in 1..Len(tasks) : j /= k => tasks'[j] = tasks[j]
                /\ agent' = agent ]_vars

(* What holds: each analysis works with whole ratings, and a step of one   *)
(* analysis changes nothing but that analysis and the AI analyzer's result *)
(* cache, to which it may add the key of its own snapshot.                 *)
AnalysesWriteOnlyAiCache ==
    [][ /\ ReadsWholeRatings'
        /\ \A k \in 1..MaxGames :
              AnalysisStep(k) =>
                /\ team_ratings' = team_ratings
                /\ \A j \in 1..Len(tasks) : j /= k => tasks'[j] = tasks[j]
                /\ agent' \in {agent, [agent EXCEPT !.ollama_cache =
                                          @ \cup {CacheKey(games[k])}]} ]_vars

(* analyses of a cycle are in flight                                       *)
BatchInFlight == agent.phase = "batch"

(* the cycle has handed the whole mapping of its batch to the dashboard    *)
BatchDelivered ==
    /\ agent.phase /= "batch"
    /\ outcome = "returned"
    /\ AllDone
    /\ agent.recommendations = CollectResults(games, tasks, 1, EmptyMap)

(* every recommendation on the dashboard has its probability, its          *)
(* confidence and its stake                                                *)
WholeRecommendations ==
    \A id \in DOMAIN agent.recommendations :
        \A i \in 1..Len(agent.recommendations[id]) :
            {"model_probability", "confidence", "recommended_stake"}
                \subseteq DOMAIN agent.recommendations[id][i]

(* C18: the analyses of a cycle are never interrupted, neither by a forced *)
(* refresh nor by a shutdown: the program does not end with a batch in     *)
(* flight, a batch that is over has its whole mapping on the dashboard,    *)
(* and no recommendation is shown without its confidence and stake.        *)
BatchNeverInterrupted ==
    /\ ~agent.alive => ~BatchInFlight
    /\ (~BatchInFlight /\ outcome = "returned") => BatchDelivered
    /\ WholeRecommendations

(* The same without the shutdown: while _running is on, whatever refresh   *)
(* is forced, the batch is in flight or delivered whole.                   *)
RefreshDoesNotInterrupt ==
    agent._running =>
        /\ agent.alive
        /\ (~BatchInFlight /\ outcome = "returned") => BatchDelivered
        /\ WholeRecommendations

(* a refresh was forced during a batch, which is then delivered with       *)
(* recommendations in it before the flag is cleared                       *)
RefreshDuringBatch ==
    /\ BatchInFlight
    /\ agent._force_refresh
    /\ agent._running
    /\ AllDone
    /\ \E k \in 1..Len(tasks) : tasks[k].recs /= <<>>

(* the program has ended with an analysis of the batch still waiting for   *)
(* the AI                                                                  *)
ExitedInFlight ==
    /\ ~agent.alive
    /\ BatchInFlight
    /\ \E k \in 1..Len(tasks) : tasks[k].pc = "awaiting_ai"

(* 0.97 when the condition on the current score holds, else 0.01; 0.99 or  *)
(* 0.01 for the totals and BTTS markets                                    *)
NearCertain(holds, high) == IF holds THEN high ELSE 100

(* C21: a call of get_all_probabilities at minute 90 or later that returns *)
(* takes the game-over branch, builds no matrix, and gives 0.97 to the one *)
(* of home_win / draw / away_win that matches the current score and 0.01   *)
(* to the other two, and 0.99 or 0.01 to the totals and BTTS markets       *)
(* according to the current score.                                         *)
FinalAtNinety ==
    (goal.fn = "get_all_probabilities" /\ ~goal.raised /\ goal.minute >= 90) =>
        LET hs == goal.home_score
            as == goal.away_score
            r == goal.result
        IN  /\ r.branch = "final"
            /\ r.home_win = NearCertain(hs > as, 9700)
            /\ r.draw = NearCertain(hs = as, 9700)
            /\ r.away_win = NearCertain(hs < as, 9700)
            /\ Cardinality({m \in {"home_win", "draw", "away_win"} : r[m] = 9700}) = 1
            /\ r.over_25 = NearCertain(hs + as > 2, 9900)
            /\ r.under_25 = NearCertain(hs + as <= 2, 9900)
            /\ r.over_35 = NearCertain(hs + as > 3, 9900)
            /\ r.under_35 = NearCertain(hs + as <= 3, 9900)
            /\ r.btts = NearCertain(hs > 0 /\ as > 0, 9900)
            /\ r.btts_no = NearCertain(hs = 0 \/ as = 0, 9900)

(* a call after minute 90 with the home side ahead by one goal and both    *)
(* teams having scored                                                     *)
FinalAtNinetyWitness ==
    /\ goal.fn = "get_all_probabilities"
    /\ ~goal.raised
    /\ goal.minute > 90
    /\ goal.home_score = 2
    /\ goal.away_score = 1
    /\ goal.result.home_win = 9700
    /\ goal.result.over_25 = 9900
    /\ goal.result.btts = 9900

----------------------------------------------------------------------------
(* Properties of the expected goals an analysis works with                 *)

(* the most likely final score when the goals still to come have the       *)
(* expected values xg                                                     *)
MostLikelyFrom(xg, home_score, away_score) ==
    LET add == BestScore(poisson_pmf(XMax(xg.home_xg.x, XG_EPS), 5),
                         poisson_pmf(XMax(xg.away_xg.x, XG_EPS), 5), 0, <<XZero, <<0, 0>>>>)
    IN  <<home_score + add[1], away_score + add[2]>>

(* C22: for a snapshot at minute 0 the analysis computes the market        *)
(* probabilities and the most likely final score from the same pair, the   *)
(* unadjusted base expected goals, whatever score the snapshot holds.      *)
KickoffUsesBaseXg ==
    \A k \in 1..Len(tasks) :
        (tasks[k].locals.evaluated /\ games[k].minute = 0) =>
            LET base == get_expected_goals(team_ratings, games[k].home_team,
                                           games[k].away_team)
            IN  /\ tasks[k].locals.probs.home_xg = Round2(base.home_xg)
                /\ tasks[k].locals.probs.away_xg = Round2(base.away_xg)
                /\ tasks[k].locals.predicted_score
                      = MostLikelyFrom(base, games[k].home_score, games[k].away_score)

(* The same for the snapshots at minute 0 with a level score, for which    *)
(* adjust_for_live leaves the expected goals as they are.                  *)
KickoffUsesBaseXgWhenLevel ==
    \A k \in 1..Len(tasks) :
        (tasks[k].locals.evaluated /\ games[k].minute = 0
         /\ games[k].home_score = games[k].away_score) =>
            LET base == get_expected_goals(team_ratings, games[k].home_team,
                                           games[k].away_team)
            IN  tasks[k].locals.predicted_score
                    = MostLikelyFrom(base, games[k].home_score, games[k].away_score)

(* x * n / d to the 16 decimal places of an expected goals value           *)
Share(x, n, d) == XDivSmall(XMulSmall(x, n), d)

(* base * (90 - minute) / 90, the share of the expected goals that is      *)
(* still to come                                                           *)
RemainingShare(base, minute) == Share(base.x, 90 - minute, 90)

(* the fatigue factor 1 - (minute - 75) / 90 * 0.1 after minute 75         *)
Fatigued(x, minute) ==
    IF minute > 75 THEN Share(x, 900 - (minute - 75), 900) ELSE x

(* 1 + min(0.3, 0.15 * |goal_diff|), in hundredths                         *)
BoostFactor(goal_diff) ==
    IF 15 * Abs(goal_diff) < 30 THEN 100 + 15 * Abs(goal_diff) ELSE 130

(* C23: in adjust_for_live for 0 < minute < 90 only the trailing side gets *)
(* the urgency boost: the side that leads or is level keeps                *)
(* base * (90 - minute) / 90, times the fatigue factor after minute 75;    *)
(* the trailing side's value is multiplied by 1 + min(0.3, 0.15 * |home    *)
(* score - away score|) before the fatigue factor; the boost never exceeds *)
(* 1.3 and no remaining expected goals are negative.                       *)
UrgencyOnlyForTrailing ==
    (goal.fn = "adjust_for_live" /\ goal.minute > 0 /\ goal.minute < 90) =>
        LET base == get_expected_goals(team_ratings, goal.home_team, goal.away_team)
            diff == goal.home_score - goal.away_score
            home_rest == RemainingShare(base.home_xg, goal.minute)
            away_rest == RemainingShare(base.away_xg, goal.minute)
        IN  /\ BoostFactor(diff) <= 130
            /\ ~XLess(goal.result.home_xg.x, XZero)
            /\ ~XLess(goal.result.away_xg.x, XZero)
            /\ goal.result.home_xg.x =
                  IF diff < 0
                  THEN Fatigued(Share(home_rest, BoostFactor(diff), 100), goal.minute)
                  ELSE Fatigued(home_rest, goal.minute)
            /\ goal.result.away_xg.x =
                  IF diff > 0
                  THEN Fatigued(Share(away_rest, BoostFactor(diff), 100), goal.minute)
                  ELSE Fatigued(away_rest, goal.minute)
            /\ ~XLess(Share(home_rest, 130, 100), goal.result.home_xg.x)
            /\ ~XLess(Share(away_rest, 130, 100), goal.result.away_xg.x)

(* a call after minute 75 with the home side three goals behind: its       *)
(* remaining expected goals are boosted by the capped factor, the away     *)
(* side's are not                                                          *)
UrgencyOnlyForTrailingWitness ==
    /\ goal.fn = "adjust_for_live"
    /\ goal.minute = 80
    /\ goal.away_score - goal.home_score = 3
    /\ XLess(RemainingShare(
                 get_expected_goals(team_ratings, goal.home_team, goal.away_team).home_xg,
                 goal.minute),
             goal.result.home_xg.x)
    /\ XLess(goal.result.away_xg.x,
             RemainingShare(
                 get_expected_goals(team_ratings, goal.home_team, goal.away_team).away_xg,
                 goal.minute))

(***************************************************************************)
(* Properties of the Goal Model as a function of the rating store          *)

PlacedFor(key) ==
    { i \in 1..Len(bettor.calls) :
        bettor.calls[i].success /\ DedupKey(bettor.calls[i].rec) = key }

(* C25: over any interleaving of consider_bet calls at most one bet is     *)
(* successfully placed per (game_id, bet_type).                            *)
OnePlacementPerKey ==
    \A i \in 1..Len(bettor.calls) :
        Cardinality(PlacedFor(DedupKey(bettor.calls[i].rec))) <= 1

(* C26: a place_bet call is issued to a scraper only while auto-betting is *)
(* enabled, also by a consider_bet call that was suspended on the balance  *)
(* query when disable() ran.                                               *)
NoBetWhileDisabled ==
    \A i \in 1..Len(bettor.calls) :
        bettor.calls[i].issued => bettor.calls[i].enabled_at_issue

(* C27: place_bet is called only after the balance was obtained and        *)
(* covers the recommended stake.                                           *)
BalanceCoversStake ==
    \A i \in 1..Len(bettor.calls) :
        bettor.calls[i].issued =>
            /\ bettor.calls[i].balance_known
            /\ bettor.calls[i].balance >= bettor.calls[i].rec.recommended_stake

(***************************************************************************)
(* Properties of the forced refresh                                        *)

(* C28: a refresh requested while the agent is running is never lost:      *)
(* during the wait that follows the request _force_refresh is set, so the  *)
(* wait loop breaks at its next test and the next cycle starts without     *)
(* waiting out REFRESH_INTERVAL.                                           *)
RefreshNeverLost ==
    (agent._running /\ agent.phase = "wait" /\ agent.refresh_pending)
        => agent._force_refresh

(***************************************************************************)
(* Properties of the merged snapshots                                      *)

(* the list _deduplicate returned                                          *)
MergedList == IF games = <<>> THEN <<>> ELSE results.merged

OddsMarkets ==
    {"odds_home_win", "odds_draw", "odds_away_win", "odds_over_25",
     "odds_under_25", "odds_btts_yes", "odds_btts_no"}

(* the snapshots passed to _deduplicate that have the key of snapshot r    *)
SourcesOf(r) ==
    { i \in 1..Len(games) :
        _make_key(games[i].home_team, games[i].away_team)
          = _make_key(r.home_team, r.away_team) }

(* the highest odds the sources of r have for market m, None if none has   *)
BestOdds(r, m) ==
    LET offered == { games[i][m] : i \in SourcesOf(r) }
    IN  CHOOSE v \in offered : \A w \in offered : w <= v

(* _deduplicate returns exactly one snapshot per normalized key            *)
OneSnapshotPerKey ==
    /\ \A i \in 1..Len(games) : \E j \in 1..Len(MergedList) : i \in SourcesOf(MergedList[j])
    /\ \A j, k \in 1..Len(MergedList) :
          SourcesOf(MergedList[j]) = SourcesOf(MergedList[k]) => j = k

(* C29: every market of a merged snapshot has odds iff one of its sources  *)
(* has them, and then the highest odds its sources have; there is exactly  *)
(* one merged snapshot per normalized key.                                 *)
MergedOddsAreBest ==
    /\ OneSnapshotPerKey
    /\ \A j \in 1..Len(MergedList) : \A m \in OddsMarkets :
          MergedList[j][m] = BestOdds(MergedList[j], m)

(* What holds: one snapshot per key, odds present iff a source has them,   *)
(* and the highest odds for the home win and for over 2.5.                 *)
MergedOddsPresentAndBestForTwo ==
    /\ OneSnapshotPerKey
    /\ \A j \in 1..Len(MergedList) : \A m \in OddsMarkets :
          /\ (MergedList[j][m] /= None) <=> (BestOdds(MergedList[j], m) /= None)
          /\ m \in {"odds_home_win", "odds_over_25"}
                => MergedList[j][m] = BestOdds(MergedList[j], m)

(***************************************************************************)
(* Properties of the stake of the returned recommendations                 *)

(* every recommendation analyze_game returns carries a stake of at least   *)
(* the lowest tier's minimum, also one with a negative edge and a Kelly    *)
(* fraction of 0                                                           *)
StakeNeverZero ==
    \A k \in 1..Len(tasks) :
        tasks[k].pc = "returned" =>
            \A i \in 1..Len(RecsOf(k)) :
                RecsOf(k)[i].recommended_stake >= STAKE_CONFIG[0][1]

(* C30: the recommended stake depends on the confidence alone: two         *)
(* recommendations analyze_game returns for one snapshot with the same     *)
(* confidence carry the same stake, whatever their odds, edge and Kelly    *)
(* fraction.                                                               *)
EqualConfidenceEqualStake ==
    \A k \in 1..Len(tasks) :
        tasks[k].pc = "returned" =>
            \A i, j \in 1..Len(RecsOf(k)) :
                RecsOf(k)[i].confidence = RecsOf(k)[j].confidence
                    => RecsOf(k)[i].recommended_stake = RecsOf(k)[j].recommended_stake

====
